---------------------------- MODULE Spec2Model ----------------------------
(***************************************************************************)
(* A model of the PAN node (jayk/pan-node): the group subscription index,  *)
(* the agent server's per-socket state machine with its resume timers, the *)
(* agent router, the spam guard and the peer handshake.                    *)
(*                                                                         *)
(* Specifications:                                                         *)
(*   SpecGroup  the group manager driven through its own API               *)
(*   Spec       the agent session machine: frames enter the 'message'      *)
(*              handler at agentServer.js:126, i.e. after the validator    *)
(*              has returned true for them                                 *)
(*   SpecResume the same machine for one connection resumed over three     *)
(*              sockets, with the maintenance sweep                        *)
(*   SpecWire   the agent server as wired: every kind of frame enters the  *)
(*              whole 'message' handler (spam, size, parse, validators.js) *)
(*   SpecSpam   the whole 'message' handler under every spacing of frames  *)
(*   SpecPeer   the peer handshake and the peer registry                   *)
(*   SpecRoute  the session machine with join, broadcast, direct and       *)
(*              disconnect frames                                          *)
(*   SpecSweep  the session machine under a clock, with the maintenance    *)
(*              interval closing sockets older than connect_timeout        *)
(*   SpecErrors the 'message' handler as wired, with good and invalid      *)
(*              frames after short and long idle times                     *)
(*   SpecAuth   the auth manager: attempts, timeouts and late replies      *)
(*   SpecAuthLive the auth manager with every armed timer firing, also     *)
(*              under orders that name an unconfigured method              *)
(*   SpecTrust  the trust validator: its file, its cache and the clock     *)
(*   SpecId     the node identity: its persist file, changes and restarts  *)
(*   SpecBus    nodeMessages: on, off, emit and the immediates it queues   *)
(***************************************************************************)
EXTENDS Integers, Sequences, FiniteSets, TLC

\* ------------------------------------------------------------------ bounds

\* groupManager.js:3
MAX_MSG_TYPES == 100

\* The auth manager: requests submitted, the longest config.order and the
\* largest config.max_tries (part_009:409 has max_tries 2).
MaxAuthRequests == 1
MaxOrder == 2
MaxTries == 3

\* The trust validator: config.cache_time and the latest reading of the
\* clock, in ticks.
CacheTicks == 2
MaxClock == 6
\* connect_timeout of the configuration, in seconds (agentServer.js:278)
CONNECT_TIMEOUT == 2

\* nodeMessages: emits made and handlers registered at one time.
MaxEmits == 1
MaxHandlers == 2

\* Connections of the group-manager specification.
GroupConns == {1, 2}
GroupIds == {"g1", "g2"}
\* One msg_type more than the cap, so that the cap can be crossed.
MsgTypes == 1..(MAX_MSG_TYPES + 1)

\* Sockets that may connect to the agent server, and the connection ids
\* createPanConnection hands out (uuid.v4(): never reused).
Sockets == {"s1", "s2", "s3"}
PeerSockets == {"p1", "p2", "p3"}
NodeIds == {"n1", "n2"}
\* The sockets of the session specification.
SessionSockets == {"s1", "s2"}
ConnIds == {1, 2}
NoConn == 0

\* At most this many auth requests are in flight.
MaxPending == 2

\* spam_protection of the configuration, and the clock's resolution.
MESSAGE_LIMIT == 2
WINDOW_SECONDS == 3
DISCONNECT_THRESHOLD == 2
TicksPerSecond == 1

\* agentServer.js:21
MAX_MESSAGE_BYTES == 61440

\* validators.js:19-20
MAX_TTL == 255
MIN_TTL == 0

VARIABLES
    groups,              \* groupManager: groupId -> msgType -> Set(connId)
    agentSubscriptions,  \* groupManager: connId -> groupId -> Set(msgType)
    sockets,             \* ws: readyState, conn, msg_errors, spamViolations, tokens
    PENDING_SOCKETS,     \* agentServer.js:26
    ACTIVE_SOCKETS,      \* agentServer.js:25
    pendingAuthRequests, \* socket -> payloads of the auth requests in flight
    agents,              \* agentRegistry: registered connIds
    sessions,            \* agentRegistry: connId -> authKey
    connWs,              \* panConnection.ws of every connection created
    nextConn,            \* the id the next createPanConnection returns
    cleanupTimeouts,     \* agentServer.js:22, connId -> timer
    timers,              \* armed resume timers, named by the socket that closed
    allow_untrusted_agents, \* methods.local.allow_untrusted_agents
    resumeRejected,      \* connIds for which a resume has been refused
    peers,               \* peerRegistry: nodeId -> peer
    peerSockets,         \* the sockets of the peer server
    authConfig,          \* agentAuthManager: config.order, config.max_tries
    authRequests,        \* agentAuthManager: pendingAuthRequests, id -> tries
    authAttempts,        \* agentAuthManager: the races attemptAuth has started
    authDone,            \* what the callback of every auth request has seen
    nextAuthRequestId,   \* the id the next submitAuthRequest draws
    trustConfig,         \* vouchsafeTrust: the parsed trusted-issuers file
    lastLoaded,          \* vouchsafeTrust: Date.now() of the last good load
    trustFile,           \* what the trusted-issuers file holds
    clock,               \* Date.now(), in ticks
    routerNodeId,        \* peerRouter: the module's `nodeId`
    statusNodeId,        \* peerStatus: status[NODE_ID_SYMBOL], set by setNodeId
    panNodeId,           \* panApp: pan['nodeId'], set by setSubsystem
    persistFile,         \* what the file at persistPath holds
    routerConfig,        \* peerRouter: node_identifier, crash_on_corrupt
    proc,                \* the process: up, or exited by process.exit(1)
    handlers,            \* nodeMessages: eventName -> handlers, in order
    immediates,          \* the setImmediate queue
    emitted,             \* every emit: its handlers then and the calls since
    out,                 \* frames the last step sent, in order
    bus,                 \* events the last step emitted on nodeMessages
    burst,               \* the run of frames an observer is counting
    last                 \* what the last operation was and how it ended

groupVars == <<groups, agentSubscriptions>>
registryVars == <<agents, sessions, connWs, nextConn>>
socketVars == <<sockets, PENDING_SOCKETS, ACTIVE_SOCKETS, pendingAuthRequests>>
timerVars == <<cleanupTimeouts, timers>>
agentVars == <<registryVars, socketVars, timerVars, allow_untrusted_agents>>
peerVars == <<peers, peerSockets>>
authMgrVars == <<authConfig, authRequests, authAttempts, authDone, nextAuthRequestId>>
trustVars == <<trustConfig, lastLoaded, trustFile, clock>>
idVars == <<routerNodeId, statusNodeId, panNodeId, persistFile, routerConfig, proc>>
nodeMsgVars == <<handlers, immediates, emitted>>
svcVars == <<authMgrVars, trustVars, idVars, nodeMsgVars>>
vars == <<groupVars, agentVars, resumeRejected, peerVars, svcVars, out, bus, burst, last>>

\* ------------------------------------------------------------- JS Map helpers

EmptyMap == << >>

MapHas(m, k) == k \in DOMAIN m

MapSet(m, k, v) == [x \in (DOMAIN m) \cup {k} |-> IF x = k THEN v ELSE m[x]]

MapDelete(m, k) == [x \in (DOMAIN m) \ {k} |-> m[x]]

\* ------------------------------------------------------------ group manager

\* The msgTypes argument of joinGroup: a JS array, or any other value.
Arr(items) == [isArray |-> TRUE, items |-> items]
NotAnArray == [isArray |-> FALSE, items |-> << >>]

\* msgType -> the recipients; the `|| new Set()` of getGroupRecipients.
getGroupRecipients(grp, groupId, msgType) ==
    IF MapHas(grp, groupId) /\ MapHas(grp[groupId], msgType)
    THEN grp[groupId][msgType]
    ELSE {}

\* The elements of a JS array.
Elements(items) == {items[i] : i \in 1..Len(items)}

\* joinGroup's forEach over msgTypes: every round creates groupMap's key if it
\* is missing, adds connId to it and adds the msgType to existingTypes; the
\* rounds touch one key each, so the loop's result is given per key.
ForEachMsgType(st, connId, groupId, items) ==
    LET groupMap == st.groups[groupId]
        added == Elements(items)
        newGroupMap == [m \in (DOMAIN groupMap) \cup added |->
                          IF m \in added
                          THEN (IF MapHas(groupMap, m) THEN groupMap[m] ELSE {})
                                  \cup {connId}
                          ELSE groupMap[m]]
        existingTypes == st.subs[connId][groupId]
    IN  [groups |-> MapSet(st.groups, groupId, newGroupMap),
         subs |-> MapSet(st.subs, connId,
                         MapSet(st.subs[connId], groupId, existingTypes \cup added))]

\* joinGroup's final test: existingTypes.size > MAX_MSG_TYPES.
CapExceeded(size) == size > MAX_MSG_TYPES

\* joinGroup(connId, groupId, msgTypes) on the index st = [groups, subs]:
\* the new index and whether the call threw.
joinGroup(st, connId, groupId, msgTypes) ==
    IF ~msgTypes.isArray \/ Len(msgTypes.items) = 0
    THEN [groups |-> st.groups, subs |-> st.subs, threw |-> TRUE]
    ELSE
      LET g1 == IF MapHas(st.groups, groupId) THEN st.groups
                ELSE MapSet(st.groups, groupId, EmptyMap)
          s1 == IF MapHas(st.subs, connId) THEN st.subs
                ELSE MapSet(st.subs, connId, EmptyMap)
          s2 == IF MapHas(s1[connId], groupId) THEN s1
                ELSE MapSet(s1, connId, MapSet(s1[connId], groupId, {}))
          done == ForEachMsgType([groups |-> g1, subs |-> s2],
                                 connId, groupId, msgTypes.items)
      IN  [groups |-> done.groups, subs |-> done.subs,
           threw |-> CapExceeded(Cardinality(done.subs[connId][groupId]))]

\* leaveGroup that forgets the forward index.
leaveGroupMutant(st, connId, groupId) ==
    IF ~MapHas(st.subs, connId) \/ ~MapHas(st.groups, groupId) THEN st
    ELSE LET agentGroupSubs == MapDelete(st.subs[connId], groupId)
         IN  [groups |-> st.groups,
              subs |-> IF DOMAIN agentGroupSubs = {} THEN MapDelete(st.subs, connId)
                       ELSE MapSet(st.subs, connId, agentGroupSubs)]

\* leaveGroup without `if (set.size === 0) groupMap.delete(msgType)`.
leaveGroupNoPruneMutant(st, connId, groupId) ==
    IF ~MapHas(st.subs, connId) \/ ~MapHas(st.groups, groupId) THEN st
    ELSE
      LET agentGroupSubs == st.subs[connId]
          groupMap == st.groups[groupId]
          has == MapHas(agentGroupSubs, groupId)
          msgTypes == IF has THEN agentGroupSubs[groupId] ELSE {}
          touched == msgTypes \cap DOMAIN groupMap
          newGroupMap == [m \in DOMAIN groupMap |->
                            IF m \in touched THEN groupMap[m] \ {connId}
                            ELSE groupMap[m]]
          newAgentGroupSubs == IF has THEN MapDelete(agentGroupSubs, groupId)
                               ELSE agentGroupSubs
      IN  [groups |-> IF DOMAIN newGroupMap = {} THEN MapDelete(st.groups, groupId)
                      ELSE MapSet(st.groups, groupId, newGroupMap),
           subs |-> IF DOMAIN newAgentGroupSubs = {} THEN MapDelete(st.subs, connId)
                    ELSE MapSet(st.subs, connId, newAgentGroupSubs)]

\* leaveGroup(connId, groupId).  The loop over the connection's msgTypes
\* touches one key of groupMap per round, so its result is given per key.
leaveGroup(st, connId, groupId) ==
    IF ~MapHas(st.subs, connId) \/ ~MapHas(st.groups, groupId) THEN st
    ELSE
      LET agentGroupSubs == st.subs[connId]
          groupMap == st.groups[groupId]
          has == MapHas(agentGroupSubs, groupId)
          msgTypes == IF has THEN agentGroupSubs[groupId] ELSE {}
          touched == msgTypes \cap DOMAIN groupMap
          emptied == {m \in touched : groupMap[m] \ {connId} = {}}
          newGroupMap == [m \in (DOMAIN groupMap) \ emptied |->
                            IF m \in touched THEN groupMap[m] \ {connId}
                            ELSE groupMap[m]]
          newAgentGroupSubs == IF has THEN MapDelete(agentGroupSubs, groupId)
                               ELSE agentGroupSubs
      IN  [groups |-> IF DOMAIN newGroupMap = {} THEN MapDelete(st.groups, groupId)
                      ELSE MapSet(st.groups, groupId, newGroupMap),
           subs |-> IF DOMAIN newAgentGroupSubs = {} THEN MapDelete(st.subs, connId)
                    ELSE MapSet(st.subs, connId, newAgentGroupSubs)]

getAgentGroups(st, connId) ==
    IF MapHas(st.subs, connId) THEN DOMAIN st.subs[connId] ELSE {}

\* removeAgentFromAllGroups: leaveGroup for each group of the snapshot.
RECURSIVE LeaveEach(_, _, _)
LeaveEach(st, connId, groupIds) ==
    IF groupIds = {} THEN st
    ELSE LET g == CHOOSE x \in groupIds : TRUE
         IN  LeaveEach(leaveGroup(st, connId, g), connId, groupIds \ {g})

\* removeAgentFromAllGroups that leaves one group of the snapshot only.
removeAgentFromAllGroupsMutant(st, connId) ==
    LET groupIds == getAgentGroups(st, connId)
    IN  IF groupIds = {} THEN st
        ELSE leaveGroup(st, connId, CHOOSE g \in groupIds : TRUE)

removeAgentFromAllGroups(st, connId) ==
    LeaveEach(st, connId, getAgentGroups(st, connId))

Index == [groups |-> groups, subs |-> agentSubscriptions]

\* The msgTypes arguments the group specification tries.
Batch(lo, hi) == [i \in 1..(hi - lo + 1) |-> lo + i - 1]

JoinInputs ==
    { NotAnArray, Arr(<< >>), Arr(<<1>>), Arr(<<MAX_MSG_TYPES + 1, MAX_MSG_TYPES + 1>>),
      Arr(Batch(1, MAX_MSG_TYPES)) }

\* ------------------------------------------------- the group specification

InitGroupIndex ==
    /\ groups = EmptyMap
    /\ agentSubscriptions = EmptyMap

\* ------------------------------------------------------------- local auth

LocalNode == "this-node"
ForeignNode == "other-node"

\* The token of an auth payload: absent, not a vouchsafe token, or a valid
\* token of the named issuer.
NoToken == [present |-> FALSE, valid |-> FALSE, iss |-> "none"]
GarbageToken == [present |-> TRUE, valid |-> FALSE, iss |-> "none"]
TokenOf(iss) == [present |-> TRUE, valid |-> TRUE, iss |-> iss]

\* trusted_issuers of the trust configuration: issuer -> purposes.
trusted_issuers ==
    [iss \in {"alice", "node-a", "node-b"} |->
        IF iss = "alice" THEN {"agent-connect"} ELSE {"peer-connect"}]

\* validateToken: throws unless the token is a valid vouchsafe token.
validateTokenThrows(token) == ~token.valid

\* isTokenTrusted(token, tokens, purposes): the issuer of a valid token is
\* listed for one of the purposes.
isTokenTrusted(token, purposes) ==
    /\ token.valid
    /\ token.iss \in DOMAIN trusted_issuers
    /\ trusted_issuers[token.iss] \cap purposes # {}

\* performLocalAuth(authPayload, methodConfig)
performLocalAuth(authPayload, allowUntrusted) ==
    IF ~authPayload.token.present
    THEN [success |-> FALSE, error |-> "Missing token"]
    ELSE IF validateTokenThrows(authPayload.token)
    THEN [success |-> FALSE, error |-> "Access Denied"]
    ELSE IF allowUntrusted
    THEN [success |-> TRUE, error |-> ""]
    ELSE IF isTokenTrusted(authPayload.token, {"agent-connect"})
    THEN [success |-> TRUE, error |-> ""]
    ELSE [success |-> FALSE, error |-> "Access Denied"]

\* ---------------------------------------------------------- agent registry

\* crypto.randomUUID() of registerAgent: a key no other connection has.
AuthKeyOf(connId) == connId
WrongKey == Cardinality(ConnIds) + 1

\* resumeAgent that does not compare the key.
resumeAgentMutant(agts, sess, connId, authKey) ==
    IF MapHas(sess, connId) /\ connId \in agts
    THEN connId
    ELSE NoConn

\* resumeAgent(connId, authKey): the connection, or null (NoConn).
resumeAgent(agts, sess, connId, authKey) ==
    IF MapHas(sess, connId) /\ sess[connId] = authKey /\ connId \in agts
    THEN connId
    ELSE NoConn

\* ------------------------------------------------------------ panConnection

\* msg.payload with the fields the handlers read.
NoPayload ==
    [group |-> "", msg_types |-> NotAnArray, ping |-> "ok", token |-> NoToken,
     auth_type |-> "standard", rc_conn |-> NoConn, rc_key |-> NoConn]

\* A frame written to a socket.  ws.send() on a socket that is no longer
\* open drops the frame without throwing (ws 8).
Sent(sock, conn, kind, info) ==
    [sock |-> sock, conn |-> conn, kind |-> kind, info |-> info,
     from |-> NoConn, group |-> "", msg_type |-> "", key |-> 0,
     from_node |-> "", in_response_to |-> "", payload |-> NoPayload]

\* rawSendControl(ws, {msg_type, payload}) and rawSendError(ws, {type, ..}).
rawSendControl(ws, msg_type, info) == Sent(ws, NoConn, msg_type, info)
rawSendError(ws, error_type) == Sent(ws, NoConn, "error", error_type)

\* conn.sendControl / conn.sendError write to the connection's current ws.
sendControl(conn, msg_type, info) == Sent(connWs[conn], conn, msg_type, info)
sendError(conn, info) == Sent(connWs[conn], conn, "error", info)

\* ws.close(): an open socket starts closing; otherwise nothing happens.
AfterClose(readyState) == IF readyState = "open" THEN "closing" ELSE readyState

\* ------------------------------------------------ agentControl, agentRouter

\* What a handler did: the indices and the registry after it, the frames it
\* sent, the bus events it emitted and whether it threw.
NoEffect ==
    [groups |-> groups, subs |-> agentSubscriptions,
     agents |-> agents, sessions |-> sessions,
     sends |-> << >>, emits |-> << >>, threw |-> FALSE]

\* typeof group === 'string'
NotAString == "<not a string>"
IsString(x) == x # NotAString

handleJoinGroup(conn, msg) ==
    IF ~IsString(msg.payload.group)
    THEN [NoEffect EXCEPT !.sends = <<sendControl(conn, "join_group_reply", "failed")>>]
    ELSE LET r == joinGroup(Index, conn, msg.payload.group, msg.payload.msg_types)
         IN  IF r.threw
             THEN [NoEffect EXCEPT !.groups = r.groups, !.subs = r.subs, !.threw = TRUE]
             ELSE [NoEffect EXCEPT !.groups = r.groups, !.subs = r.subs,
                     !.sends = <<sendControl(conn, "join_group_reply", "ok")>>]

handleLeaveGroup(conn, msg) ==
    IF ~IsString(msg.payload.group)
    THEN [NoEffect EXCEPT !.sends = <<sendControl(conn, "leave_group_reply", "failed")>>]
    ELSE LET r == leaveGroup(Index, conn, msg.payload.group)
         IN  [NoEffect EXCEPT !.groups = r.groups, !.subs = r.subs,
                !.sends = <<sendControl(conn, "leave_group_reply", "ok")>>]

\* The payload of a bus event: the sending connection, the message and, where
\* the emitter writes from.node_id, the node id.
Event(name, conn, msg) ==
    [event |-> name, node_id |-> "", conn |-> conn, message |-> msg]

\* handlePing: the payload checks, then the relay through the bus.
handlePing(conn, msg) ==
    IF msg.payload.ping # "ok"
    THEN [NoEffect EXCEPT !.sends = <<sendControl(conn, "ping_response", msg.payload.ping)>>]
    ELSE [NoEffect EXCEPT !.emits = <<Event("outbound:agent_ping", conn, msg)>>]

\* handleDisconnect calls cleanAgent, which no module defines: the call
\* throws a ReferenceError before anything else happens.
handleDisconnect(conn, msg) == [NoEffect EXCEPT !.threw = TRUE]

\* cleanupAgent(conn)
cleanupAgent(conn) ==
    LET r == removeAgentFromAllGroups(Index, conn)
    IN  [NoEffect EXCEPT !.groups = r.groups, !.subs = r.subs,
           !.agents = agents \ {conn}, !.sessions = MapDelete(sessions, conn)]

processControl(conn, msg) ==
    CASE msg.msg_type = "join_group" -> handleJoinGroup(conn, msg)
      [] msg.msg_type = "leave_group" -> handleLeaveGroup(conn, msg)
      [] msg.msg_type = "ping_request" -> handlePing(conn, msg)
      [] msg.msg_type = "disconnect" -> handleDisconnect(conn, msg)
      [] OTHER -> [NoEffect EXCEPT !.sends = <<sendError(conn, "unknown agent message type")>>]

\* The frames deliverBroadcast's loop sends over the recipients left to visit.
RECURSIVE SendToRecipients(_, _, _)
SendToRecipients(recipients, fromConn, msg) ==
    IF recipients = {} THEN << >>
    ELSE LET connId == CHOOSE c \in recipients : \A d \in recipients : c <= d
             rest == SendToRecipients(recipients \ {connId}, fromConn, msg)
         IN  IF connId = fromConn THEN rest
             ELSE IF connId \in agents
             THEN <<[Sent(connWs[connId], connId, "broadcast", "") EXCEPT
                       !.from = msg.from_conn, !.from_node = msg.from_node,
                       !.group = msg.group, !.msg_type = msg.msg_type,
                       !.payload = msg.payload]>> \o rest
             ELSE rest

\* deliverBroadcast without the test `connId === fromConn.id`.
deliverBroadcastMutant(fromConn, msg) ==
    [NoEffect EXCEPT
       !.sends = SendToRecipients(getGroupRecipients(groups, msg.group, msg.msg_type),
                                  NoConn, msg),
       !.emits = <<[Event("outbound:agent_broadcast", fromConn, msg) EXCEPT
                      !.node_id = LocalNode]>>]

\* deliverBroadcast that relays to the bus only what had no local recipient.
deliverBroadcastLocalOnlyMutant(fromConn, msg) ==
    LET recipients == getGroupRecipients(groups, msg.group, msg.msg_type)
    IN  [NoEffect EXCEPT
           !.sends = SendToRecipients(recipients, fromConn, msg),
           !.emits = IF recipients = {}
                     THEN <<[Event("outbound:agent_broadcast", fromConn, msg) EXCEPT
                               !.node_id = LocalNode]>>
                     ELSE << >>]

deliverBroadcast(fromConn, msg) ==
    [NoEffect EXCEPT
       !.sends = SendToRecipients(getGroupRecipients(groups, msg.group, msg.msg_type),
                                  fromConn, msg),
       !.emits = <<[Event("outbound:agent_broadcast", fromConn, msg) EXCEPT
                      !.node_id = LocalNode]>>]

\* deliverDirect that leaves in_response_to out of the frame it sends.
deliverDirectMutant(fromConn, msg) ==
    IF msg.to_node = "" \/ msg.to_conn = NoConn
    THEN [NoEffect EXCEPT !.sends = <<sendError(fromConn, "invalid to field")>>]
    ELSE IF msg.to_node = LocalNode
    THEN IF msg.to_conn \in agents
         THEN [NoEffect EXCEPT
                 !.sends = <<[Sent(connWs[msg.to_conn], msg.to_conn, "direct", "") EXCEPT
                                !.from = fromConn, !.from_node = LocalNode,
                                !.msg_type = msg.msg_type,
                                !.payload = msg.payload]>>]
         ELSE [NoEffect EXCEPT !.threw = TRUE]
    ELSE [NoEffect EXCEPT !.emits = <<Event("outbound:agent_direct", fromConn, msg)>>]

\* An empty string passes the validator's typeof test and is taken for
\* missing by `!to.node_id || !to.conn_id`; the empty conn_id is NoConn.
deliverDirect(fromConn, msg) ==
    IF msg.to_node = "" \/ msg.to_conn = NoConn
    THEN [NoEffect EXCEPT !.sends = <<sendError(fromConn, "invalid to field")>>]
    ELSE IF msg.to_node = LocalNode
    THEN IF msg.to_conn \in agents
         THEN [NoEffect EXCEPT
                 !.sends = <<[Sent(connWs[msg.to_conn], msg.to_conn, "direct", "") EXCEPT
                                !.from = fromConn, !.from_node = LocalNode,
                                !.msg_type = msg.msg_type,
                                !.in_response_to = msg.msg_id,
                                !.payload = msg.payload]>>]
         ELSE [NoEffect EXCEPT !.threw = TRUE]
    ELSE [NoEffect EXCEPT !.emits = <<Event("outbound:agent_direct", fromConn, msg)>>]

\* agentRouter.handleMessage(conn, msg)
handleMessage(conn, msg) ==
    CASE msg.type = "control" -> processControl(conn, msg)
      [] msg.type = "broadcast" -> deliverBroadcast(conn, msg)
      [] msg.type = "direct" -> deliverDirect(conn, msg)
      [] OTHER -> [NoEffect EXCEPT !.sends = <<sendError(conn, "Unknown message type")>>]

\* ------------------------------------------------------------ spamProtector

\* Token arithmetic is exact: time is counted in ticks and tokens in units of
\* 1/TokenScale, so that one tick refills MESSAGE_LIMIT units.
TokenScale == WINDOW_SECONDS * TicksPerSecond
MaxElapsed == WINDOW_SECONDS * TicksPerSecond

Min(a, b) == IF a < b THEN a ELSE b

\* track without `bucket.tokens -= 1`.
trackMutant(ws, elapsed) ==
    LET before == IF ws.hasBucket THEN ws.tokens ELSE MESSAGE_LIMIT * TokenScale
        clamped == Min(elapsed, MaxElapsed)
        refilled == Min(MESSAGE_LIMIT * TokenScale, before + clamped * MESSAGE_LIMIT)
    IN  IF refilled < TokenScale
        THEN [tokens |-> refilled, violation |-> TRUE]
        ELSE [tokens |-> refilled, violation |-> FALSE]

\* track without the Math.min that caps the refilled bucket.
trackUncappedMutant(ws, elapsed) ==
    LET before == IF ws.hasBucket THEN ws.tokens ELSE MESSAGE_LIMIT * TokenScale
        clamped == Min(elapsed, MaxElapsed)
        refilled == before + clamped * MESSAGE_LIMIT
    IN  IF refilled < TokenScale
        THEN [tokens |-> refilled, violation |-> TRUE]
        ELSE [tokens |-> refilled - TokenScale, violation |-> FALSE]

\* track(ws, config), `elapsed` ticks after the bucket's lastCheck: the
\* bucket's tokens afterwards and whether the frame is a violation.
track(ws, elapsed) ==
    LET before == IF ws.hasBucket THEN ws.tokens ELSE MESSAGE_LIMIT * TokenScale
        clamped == Min(elapsed, MaxElapsed)
        refilled == Min(MESSAGE_LIMIT * TokenScale, before + clamped * MESSAGE_LIMIT)
    IN  IF refilled < TokenScale
        THEN [tokens |-> refilled, violation |-> TRUE]
        ELSE [tokens |-> refilled - TokenScale, violation |-> FALSE]

\* ---------------------------------------------------------------- validators

VALID_AGENT_MESSAGE_TYPES == {"direct", "broadcast", "agent_control"}
VALID_PEER_MESSAGE_TYPES == {"peer_control"}

\* isFastUuid: ids of the model that have the shape of a UUID.
isFastUuid(str) == str \in {"uuid", "uuid-2", LocalNode, ForeignNode, "node-a", "node-b", "node-c"}

\* A group id of 36 characters.
IsGroupId(g) == g \in GroupIds

isValidBaseFields(msg) ==
    /\ isFastUuid(msg.msg_id)
    /\ isFastUuid(msg.from_node)
    /\ msg.ttl >= MIN_TTL /\ msg.ttl <= MAX_TTL

validateAgentMessage(msg) ==
    IF msg.type \notin VALID_AGENT_MESSAGE_TYPES THEN FALSE
    ELSE CASE msg.type = "direct" -> isFastUuid(msg.to_node)
           [] msg.type = "broadcast" -> IsGroupId(msg.group)
           [] msg.type = "control" -> TRUE
           [] OTHER -> FALSE

validateIncomingAgentMessage(msg) ==
    isValidBaseFields(msg) /\ validateAgentMessage(msg)

validatePeerMessage(msg) == msg.type \in VALID_PEER_MESSAGE_TYPES

validateIncomingPeerMessage(msg) ==
    isValidBaseFields(msg) /\ validatePeerMessage(msg)

\* ------------------------------------------------- agentServer: 'message'

MAX_ERRORS_BEFORE_DISCONNECT == DISCONNECT_THRESHOLD

\* A JavaScript number or NaN, and a setting that may be undefined.
Num(v) == [nan |-> FALSE, v |-> v]
NaN == [nan |-> TRUE, v |-> 0]
Undefined == [defined |-> FALSE, v |-> 0]

\* x * 1000: undefined * 1000 is NaN.
TimesThousand(x) == IF x.defined THEN Num(x.v * 1000) ELSE NaN

\* x ?? d for a number x: `??` replaces only null and undefined, NaN stays.
Coalesce(x, d) == x

\* a > b: false whenever b is NaN.
GreaterThan(a, b) == ~b.nan /\ a > b.v

\* spam_protection.error_reset_window of the default configuration.
error_reset_window == Undefined

\* agentServer.js:37
DEFAULT_ERROR_RESET_MS == 300000
SPAM_ERROR_RESET_WINDOW ==
    Coalesce(TimesThousand(error_reset_window), Num(DEFAULT_ERROR_RESET_MS))

\* An idle time that is longer than the default reset window, in ticks.
LongIdle == (DEFAULT_ERROR_RESET_MS \div 1000) * TicksPerSecond + 1

\* now - ws.lastErrorTimestamp is kept as a lower bound in ticks: a gap of
\* LongIdle ticks or more between two frames is recorded, shorter gaps are
\* not added up.
Aged(age, elapsed) == IF elapsed >= LongIdle THEN LongIdle ELSE age
Milliseconds(ticks) == (ticks * 1000) \div TicksPerSecond

\* The reset test that falls back to the default window.
ErrorResetDueMutant(ws) ==
    GreaterThan(Milliseconds(ws.lastErrorAge), Num(DEFAULT_ERROR_RESET_MS))

\* (now - ws.lastErrorTimestamp) > SPAM_ERROR_RESET_WINDOW (agentServer.js:121)
ErrorResetDue(ws) ==
    GreaterThan(Milliseconds(ws.lastErrorAge), SPAM_ERROR_RESET_WINDOW)

Closed(ws) == [ws EXCEPT !.readyState = AfterClose(ws.readyState)]

\* What the 'message' handler did with one frame: the socket afterwards, the
\* handler's effect, whether it submitted an auth request, whether it passed
\* the frame to the router, and the branch it took.
Outcome(ws, eff, submitted, routed, branch) ==
    [ws |-> ws, eff |-> eff, submitted |-> submitted, routed |-> routed,
     branch |-> branch]

\* The handler without the test of from.node_id.
AfterValidationMutant(s, ws, msg) ==
    IF ws.conn = NoConn
    THEN IF msg.type = "control" /\ msg.msg_type = "auth"
         THEN Outcome(ws, NoEffect, TRUE, FALSE, "auth")
         ELSE Outcome(ws,
                [NoEffect EXCEPT
                   !.sends = <<rawSendControl(s, "auth.failed", "Authorization required")>>],
                FALSE, FALSE, "unauthenticated")
    ELSE IF msg.from_conn # ws.conn
    THEN Outcome(Closed(ws), NoEffect, FALSE, FALSE, "from_conn")
    ELSE LET eff == handleMessage(ws.conn, msg)
         IN  IF eff.threw
             THEN Outcome(Closed(ws),
                    [eff EXCEPT !.sends = eff.sends \o <<rawSendError(s, "message_failure")>>],
                    FALSE, TRUE, "message_failure")
             ELSE Outcome(ws, eff, FALSE, TRUE, "routed")

\* agentServer.js:126-249, the handler once validateIncomingAgentMessage has
\* returned true, on socket s whose fields are ws.
AfterValidation(s, ws, msg) ==
    IF ws.conn = NoConn
    THEN IF msg.type = "control" /\ msg.msg_type = "auth"
         THEN Outcome(ws, NoEffect, TRUE, FALSE, "auth")
         ELSE Outcome(ws,
                [NoEffect EXCEPT
                   !.sends = <<rawSendControl(s, "auth.failed", "Authorization required")>>],
                FALSE, FALSE, "unauthenticated")
    ELSE IF msg.from_conn # ws.conn
    THEN Outcome(Closed(ws), NoEffect, FALSE, FALSE, "from_conn")
    ELSE IF msg.from_node # LocalNode
    THEN Outcome(Closed(ws), NoEffect, FALSE, FALSE, "from_node")
    ELSE LET eff == handleMessage(ws.conn, msg)
         IN  IF eff.threw
             THEN Outcome(Closed(ws),
                    [eff EXCEPT !.sends = eff.sends \o <<rawSendError(s, "message_failure")>>],
                    FALSE, TRUE, "message_failure")
             ELSE Outcome(ws, eff, FALSE, TRUE, "routed")

\* The spam branch that closes only after more than disconnect_threshold
\* violations.
SpamViolationMutant(s, ws) ==
    LET ws2 == [ws EXCEPT !.spamViolations = @ + 1]
        reply == rawSendControl(s, "speed_limit_exceeded", "")
    IN  Outcome(IF ws2.spamViolations > DISCONNECT_THRESHOLD THEN Closed(ws2) ELSE ws2,
                [NoEffect EXCEPT !.sends = <<reply>>], FALSE, FALSE, "spam")

\* agentServer.js:59-77, the handler when track reports a violation: count
\* it, reply speed_limit_exceeded, close at disconnect_threshold, drop the
\* frame.
SpamViolation(s, ws) ==
    LET ws2 == [ws EXCEPT !.spamViolations = @ + 1]
        reply == rawSendControl(s, "speed_limit_exceeded", "")
    IN  Outcome(IF ws2.spamViolations >= DISCONNECT_THRESHOLD THEN Closed(ws2) ELSE ws2,
                [NoEffect EXCEPT !.sends = <<reply>>], FALSE, FALSE, "spam")

\* The size test with >= for >.
TooLargeMutant(frame) == frame.bytes >= MAX_MESSAGE_BYTES

\* agentServer.js:80, msgBuffer.length > MAX_MESSAGE_BYTES
TooLarge(frame) == frame.bytes > MAX_MESSAGE_BYTES

\* The validation branch that closes as soon as msg_errors reaches the limit.
InvalidMessageMutant(s, ws) ==
    LET ws2 == [ws EXCEPT !.msg_errors = @ + 1, !.lastErrorAge = 0]
        invalid == rawSendError(s, "invalid_message")
    IN  IF ws2.msg_errors >= MAX_ERRORS_BEFORE_DISCONNECT
        THEN Outcome(Closed(ws2),
               [NoEffect EXCEPT
                  !.sends = <<invalid, rawSendError(s, "too_many_bad_messages")>>],
               FALSE, FALSE, "invalid")
        ELSE Outcome(ws2, [NoEffect EXCEPT !.sends = <<invalid>>],
                     FALSE, FALSE, "invalid")

\* agentServer.js:96-118, the handler when validateIncomingAgentMessage
\* returns false.
InvalidMessage(s, ws) ==
    LET ws2 == [ws EXCEPT !.msg_errors = @ + 1, !.lastErrorAge = 0]
        invalid == rawSendError(s, "invalid_message")
    IN  IF ws2.msg_errors > MAX_ERRORS_BEFORE_DISCONNECT
        THEN Outcome(Closed(ws2),
               [NoEffect EXCEPT
                  !.sends = <<invalid, rawSendError(s, "too_many_bad_messages")>>],
               FALSE, FALSE, "invalid")
        ELSE Outcome(ws2, [NoEffect EXCEPT !.sends = <<invalid>>],
                     FALSE, FALSE, "invalid")

\* The handler with the size check ahead of the spam check.
OnMessageMutant(s, ws, frame, elapsed) ==
    LET spamResult == track(ws, elapsed)
        ws1 == [ws EXCEPT !.hasBucket = TRUE, !.tokens = spamResult.tokens,
                          !.lastErrorAge = Aged(@, elapsed)]
    IN  IF TooLarge(frame)
        THEN Outcome(ws1,
               [NoEffect EXCEPT !.sends = <<rawSendControl(s, "bad_packet", "message too large")>>],
               FALSE, FALSE, "too_large")
        ELSE IF spamResult.violation
        THEN SpamViolation(s, ws1)
        ELSE IF ~frame.json
        THEN Outcome(Closed(ws1),
               [NoEffect EXCEPT !.sends = <<rawSendError(s, "message_failure")>>],
               FALSE, FALSE, "message_failure")
        ELSE IF ~validateIncomingAgentMessage(frame.msg)
        THEN InvalidMessage(s, ws1)
        ELSE AfterValidation(s,
               IF ws1.msg_errors > 0 /\ ErrorResetDue(ws1)
               THEN [ws1 EXCEPT !.msg_errors = 0] ELSE ws1,
               frame.msg)

\* agentServer.js:54-250, the whole handler for one frame off the wire that
\* arrives `elapsed` ticks after the socket's previous frame.
OnMessage(s, ws, frame, elapsed) ==
    LET spamResult == track(ws, elapsed)
        ws1 == [ws EXCEPT !.hasBucket = TRUE, !.tokens = spamResult.tokens,
                          !.lastErrorAge = Aged(@, elapsed)]
    IN  IF spamResult.violation
        THEN SpamViolation(s, ws1)
        ELSE IF TooLarge(frame)
        THEN Outcome(ws1,
               [NoEffect EXCEPT !.sends = <<rawSendControl(s, "bad_packet", "message too large")>>],
               FALSE, FALSE, "too_large")
        ELSE IF ~frame.json
        THEN Outcome(Closed(ws1),
               [NoEffect EXCEPT !.sends = <<rawSendError(s, "message_failure")>>],
               FALSE, FALSE, "message_failure")
        ELSE IF ~validateIncomingAgentMessage(frame.msg)
        THEN InvalidMessage(s, ws1)
        ELSE AfterValidation(s,
               IF ws1.msg_errors > 0 /\ ErrorResetDue(ws1)
               THEN [ws1 EXCEPT !.msg_errors = 0] ELSE ws1,
               frame.msg)

\* ------------------------------------------------------- the initial state

FreshSocket ==
    [readyState |-> "free", conn |-> NoConn, msg_errors |-> 0,
     spamViolations |-> 0, hasBucket |-> FALSE, tokens |-> 0,
     connectTimestamp |-> 0, lastErrorAge |-> 0]

NoBurst == [count |-> 0, elapsed |-> 0, violated |-> FALSE]

\* ------------------------------------------------------------ node identity

\* uuid.validate: the well-formed UUIDs among the strings of the model.
Uuids == {LocalNode, ForeignNode, "v5-of-identifier"}
isUuid(str) == str \in Uuids

\* The ids uuidv4() may draw, and uuidv5(config.node_identifier, PAN_ROOT_ID),
\* which is a function of the identifier.
RandomIds == {LocalNode, ForeignNode}
uuidv5 == "v5-of-identifier"

\* The persist file: absent, or the text it holds after trim().
NoFile == [exists |-> FALSE, text |-> ""]
FileWith(text) == [exists |-> TRUE, text |-> text]
PersistFiles == {NoFile, FileWith("garbage")} \cup {FileWith(id) : id \in Uuids}

RouterConfigs == [node_identifier : BOOLEAN, crash_on_corrupt : BOOLEAN]

\* persistNodeId (part_006:153-164); persistPath is always set by
\* initialize, and the write is taken to succeed.
persistNodeId(id, file) ==
    IF id = "" \/ ~isUuid(id) THEN file ELSE FileWith(id)

\* initialize that never persists the id it generated.
initializeMutant(config, file, drawn) ==
    LET loaded == IF file.exists /\ isUuid(file.text) THEN file.text ELSE ""
        exits == file.exists /\ ~isUuid(file.text) /\ config.crash_on_corrupt
        id == IF loaded # "" THEN loaded
              ELSE IF config.node_identifier THEN uuidv5 ELSE drawn
    IN  IF exits
        THEN [proc |-> "exited", nodeId |-> "", file |-> file]
        ELSE [proc |-> "up", nodeId |-> id, file |-> file]

\* initialize (part_006:173-223) in a fresh process: the id read from the
\* file, else the one derived from node_identifier, else a random one,
\* which is persisted at once.
initialize(config, file, drawn) ==
    LET loaded == IF file.exists /\ isUuid(file.text) THEN file.text ELSE ""
        exits == file.exists /\ ~isUuid(file.text) /\ config.crash_on_corrupt
        id == IF loaded # "" THEN loaded
              ELSE IF config.node_identifier THEN uuidv5 ELSE drawn
        didGenerate == loaded = "" /\ ~config.node_identifier
    IN  IF exits
        THEN [proc |-> "exited", nodeId |-> "", file |-> file]
        ELSE [proc |-> "up", nodeId |-> id,
              file |-> IF didGenerate THEN persistNodeId(id, file) ELSE file]

\* The identity service after main has initialized it.
InitIdentity(config, file, drawn) ==
    LET r == initialize(config, file, drawn)
    IN  /\ routerConfig = config
        /\ proc = r.proc
        /\ routerNodeId = r.nodeId
        /\ statusNodeId = r.nodeId
        /\ panNodeId = ""
        /\ persistFile = r.file

\* -------------------------------------------------------------- nodeMessages

Events == {"outbound:agent_broadcast", "outbound:agent_direct"}

\* The functions given to on() and off(): f returns, g throws. `handlers`
\* maps every event name to whether the Map has it and to its array.
Fns == {"f", "g"}
Throws(fn) == fn = "g"

\* on(eventName, fn) (part_014:5-10)
on(h, eventName, fn) ==
    [h EXCEPT ![eventName] = [has |-> TRUE, fns |-> Append(@.fns, fn)]]

\* off(eventName, fn) (part_014:12-18)
off(h, eventName, fn) ==
    IF ~h[eventName].has
    THEN h
    ELSE [h EXCEPT ![eventName].fns = SelectSeq(@, LAMBDA x : x # fn)]

\* emit that schedules the first handler only.
emitMutant(h, q, k, eventName, payload) ==
    IF ~h[eventName].has
    THEN q
    ELSE q \o [i \in 1..(IF Len(h[eventName].fns) > 0 THEN 1 ELSE 0) |->
                 [emit |-> k, fn |-> h[eventName].fns[i], payload |-> payload]]

\* emit(eventName, payload) (part_014:20-32): one setImmediate for every
\* handler, in the order of the array; `k` numbers the emit.
emit(h, q, k, eventName, payload) ==
    IF ~h[eventName].has
    THEN q
    ELSE q \o [i \in 1..Len(h[eventName].fns) |->
                 [emit |-> k, fn |-> h[eventName].fns[i], payload |-> payload]]

InitNodeMessages ==
    /\ handlers = [e \in Events |-> [has |-> FALSE, fns |-> << >>]]
    /\ immediates = << >>
    /\ emitted = << >>

\* -------------------------------------------------------- trust validator

\* `{}`, what a file holding null and a first load that fails leave behind:
\* trustConfig.trusted_issuers is undefined.
EmptyConfig == [defined |-> FALSE, trusted_issuers |-> EmptyMap]
ConfigA == [defined |-> TRUE, trusted_issuers |-> trusted_issuers]
ConfigB == [defined |-> TRUE, trusted_issuers |-> [iss \in {"bob"} |-> {"agent-connect"}]]

\* The trusted-issuers file: absent, not JSON, the JSON null or a config.
TrustFiles == {"missing", "broken", "null", "A", "B"}

\* fs.readFileSync and JSON.parse (part_008:48-50).
readThrows(file) == file \in {"missing", "broken"}
parsed(file) ==
    IF file = "A" THEN ConfigA ELSE IF file = "B" THEN ConfigB ELSE EmptyConfig

\* `let trustData;` (part_008:32) is never assigned.
trustData == "undefined"

\* Date.now() is far beyond cacheMs when the validator is created.
ClockStart == CacheTicks + 1

\* loadTrustedConfig that goes blank when the file cannot be loaded.
loadTrustedConfigMutant(force, cfg, loaded, file, now) ==
    IF force \/ trustData = "undefined" \/ now - loaded > CacheTicks
    THEN IF readThrows(file)
         THEN [trustConfig |-> EmptyConfig, lastLoaded |-> loaded,
               read |-> TRUE, failed |-> TRUE]
         ELSE [trustConfig |-> parsed(file), lastLoaded |-> now,
               read |-> TRUE, failed |-> FALSE]
    ELSE [trustConfig |-> cfg, lastLoaded |-> loaded, read |-> FALSE, failed |-> FALSE]

\* loadTrustedConfig(force) (part_008:35-57)
loadTrustedConfig(force, cfg, loaded, file, now) ==
    IF force \/ trustData = "undefined" \/ now - loaded > CacheTicks
    THEN IF readThrows(file)
         THEN [trustConfig |-> cfg, lastLoaded |-> loaded,
               read |-> TRUE, failed |-> TRUE]
         ELSE [trustConfig |-> parsed(file), lastLoaded |-> now,
               read |-> TRUE, failed |-> FALSE]
    ELSE [trustConfig |-> cfg, lastLoaded |-> loaded, read |-> FALSE, failed |-> FALSE]

\* verifyTrustChain of the vouchsafe package for a token without a chain:
\* its issuer is listed for one of the purposes.
verifyTrustChain(token, cfg, purposes) ==
    /\ cfg.defined
    /\ token.valid
    /\ token.iss \in DOMAIN cfg.trusted_issuers
    /\ cfg.trusted_issuers[token.iss] \cap purposes # {}

TrustTokens == {TokenOf("alice"), TokenOf("bob"), TokenOf("node-a"), GarbageToken}
TrustPurposes == {{"agent-connect"}, {"peer-connect"}}

\* Everything a config trusts.
Trusts(cfg) ==
    {<<t, p>> \in TrustTokens \X TrustPurposes : verifyTrustChain(t, cfg, p)}

\* createTrustValidator (part_008:29-33, 100): the first load is forced; if
\* it fails the config is `{}` and lastLoaded stays 0.
InitTrustValidator(file) ==
    /\ trustFile = file
    /\ clock = ClockStart
    /\ trustConfig = loadTrustedConfig(TRUE, EmptyConfig, 0, trustFile, clock).trustConfig
    /\ lastLoaded = loadTrustedConfig(TRUE, EmptyConfig, 0, trustFile, clock).lastLoaded

\* ----------------------------------------------------------- auth manager

AuthIds == 1..MaxAuthRequests
\* An auth_request_id no submitAuthRequest has drawn.
UnknownAuthId == MaxAuthRequests + 1

\* config.methods: 'local' runs performLocalAuth, 'relay' is of type
\* special-agent and runs relayAuthToAgent.
MethodType(methodName) == IF methodName = "local" THEN "local" ELSE "special-agent"

AuthOrders ==
    {<<"local">>, <<"relay">>, <<"local", "relay">>, <<"relay", "local">>}

\* config.methods[methodName] exists and has a type: an order may name a
\* method that config.methods does not hold.
HasMethodConfig(methodName) == methodName \in {"local", "relay"}

\* Orders that name the method 'ghost', which config.methods does not hold.
GhostOrders == {<<"ghost">>, <<"relay", "ghost">>}

AuthResult(success, error) == [success |-> success, error |-> error]

\* How the promise of a method can settle: performLocalAuth catches every
\* error and resolves; relayAuthToAgent throws.
MethodOutcomes(methodName) ==
    IF MethodType(methodName) = "local"
    THEN {[settled |-> "resolved", result |-> AuthResult(TRUE, "")],
          [settled |-> "resolved", result |-> AuthResult(FALSE, "Access Denied")]}
    ELSE {[settled |-> "rejected", result |-> AuthResult(FALSE, "No agent available")]}

NoAttempt == [methodName |-> "", method |-> "none", timer |-> "none", settled |-> FALSE]
NotCalled == [called |-> 0, seen |-> {}, result |-> AuthResult(FALSE, ""),
              tries |-> 0, late |-> FALSE, again |-> FALSE]

\* The auth manager's state as its functions pass it on.
AuthState == [pending |-> authRequests, attempts |-> authAttempts, done |-> authDone]

\* finishAuthRequest that invokes the callback without looking the request up.
finishAuthRequestMutant(st, id, result) ==
    IF id \notin AuthIds
    THEN st
    ELSE LET removed == MapDelete(st.pending, id)
         IN  [st EXCEPT
                !.pending = removed,
                !.done[id] = [@ EXCEPT !.called = @ + 1, !.seen = DOMAIN removed,
                                       !.result = result]]

\* finishAuthRequest (part_009:534-541): delete, then callback. `seen` is
\* the pending map as the callback finds it.
finishAuthRequest(st, id, result) ==
    IF ~MapHas(st.pending, id)
    THEN IF id \in AuthIds /\ st.done[id].called > 0
         THEN [st EXCEPT !.done[id].again = TRUE]
         ELSE st
    ELSE LET removed == MapDelete(st.pending, id)
         IN  [st EXCEPT
                !.pending = removed,
                !.done[id] = [@ EXCEPT !.called = @ + 1, !.seen = DOMAIN removed,
                                       !.result = result,
                                       !.tries = st.pending[id]]]

\* attemptAuth up to its await (part_009:468-509).
attemptAuth(st, id) ==
    IF ~MapHas(st.pending, id)
    THEN st
    ELSE LET tries == st.pending[id]
         IN  IF tries + 1 > Len(authConfig.order)
             THEN finishAuthRequest(st, id, AuthResult(FALSE, "No auth methods left"))
             \* `throw new Error('Invalid auth method config ...')` of lines
             \* 483-485 stands before the try block: the promise of
             \* attemptAuth rejects with tries counted and nothing armed.
             ELSE IF ~HasMethodConfig(authConfig.order[tries + 1])
             THEN [st EXCEPT !.pending[id] = tries + 1]
             ELSE [st EXCEPT
                     !.pending[id] = tries + 1,
                     !.attempts[<<id, tries + 1>>] =
                        [methodName |-> authConfig.order[tries + 1],
                         method |-> "pending", timer |-> "armed", settled |-> FALSE]]

\* The catch block of attemptAuth (part_009:512-525); pending.tries is the
\* count of the request object the attempt captured.
attemptFailed(st, id, tries, error) ==
    IF tries < authConfig.max_tries
    THEN attemptAuth(st, id)
    ELSE finishAuthRequest(st, id, AuthResult(FALSE, error))

\* The code after `await Promise.race` for the event that settles the race.
\* A callback that throws lands in the catch block, where both attemptAuth
\* and finishAuthRequest find the request gone and return.
raceSettled(st, id, n, outcome) ==
    IF outcome.settled = "resolved"
    THEN finishAuthRequest(st, id, outcome.result)
    ELSE attemptFailed(st, id, n, outcome.result.error)

InitAuthManager ==
    /\ authRequests = EmptyMap
    /\ authAttempts = [k \in AuthIds \X (1..MaxOrder) |-> NoAttempt]
    /\ authDone = [id \in AuthIds |-> NotCalled]
    /\ nextAuthRequestId = 1

InitState ==
    /\ InitGroupIndex
    /\ sockets = [s \in Sockets |-> FreshSocket]
    /\ PENDING_SOCKETS = << >>
    /\ ACTIVE_SOCKETS = {}
    /\ pendingAuthRequests = [s \in Sockets |-> << >>]
    /\ agents = {}
    /\ sessions = EmptyMap
    /\ connWs = EmptyMap
    /\ nextConn = 1
    /\ cleanupTimeouts = EmptyMap
    /\ timers = {}
    /\ resumeRejected = {}
    /\ peers = EmptyMap
    /\ peerSockets = [s \in PeerSockets |-> "free"]
    /\ InitAuthManager
    /\ out = << >>
    /\ bus = << >>
    /\ burst = NoBurst
    /\ last = [op |-> "init"]

\* ------------------------------------------------------------------ frames

\* A frame of the agent protocol as JSON.parse returns it.
Msg(type, msg_type, from_conn, from_node) ==
    [type |-> type, msg_type |-> msg_type, from_conn |-> from_conn,
     from_node |-> from_node, msg_id |-> "uuid", ttl |-> 1,
     group |-> "", to_node |-> "", to_conn |-> NoConn, payload |-> NoPayload]

SessionGroups == {"g1"}
SessionMsgTypes == {"m1", "m2"}
UnknownConn == Cardinality(ConnIds) + 1

AuthPayload(token, auth_type, rc_conn, rc_key) ==
    [NoPayload EXCEPT !.token = token, !.auth_type = auth_type,
                      !.rc_conn = rc_conn, !.rc_key = rc_key]

AuthFrame(p) == [Msg("control", "auth", NoConn, LocalNode) EXCEPT !.payload = p]

JoinFrame(c, n, g, mts) ==
    [Msg("control", "join_group", c, n) EXCEPT
       !.payload = [NoPayload EXCEPT !.group = g, !.msg_types = mts]]

LeaveFrame(c, n, g) ==
    [Msg("control", "leave_group", c, n) EXCEPT
       !.payload = [NoPayload EXCEPT !.group = g]]

PingFrame(c, n, p) ==
    [Msg("control", "ping_request", c, n) EXCEPT
       !.payload = [NoPayload EXCEPT !.ping = p]]

BroadcastFrame(c, n, g, m) == [Msg("broadcast", m, c, n) EXCEPT !.group = g]

DirectFrame(c, n, tn, tc) ==
    [Msg("direct", "m1", c, n) EXCEPT !.to_node = tn, !.to_conn = tc]

\* The auth requests of the session specification: a new session, and a
\* resume, with the right and with a wrong key, of a connection that has been
\* created (its id is a uuid.v4() nobody else knows).
AuthPayloads ==
    {AuthPayload(TokenOf("alice"), "standard", NoConn, NoConn)}
    \cup {AuthPayload(TokenOf("alice"), "reconnect", c, AuthKeyOf(c)) : c \in DOMAIN connWs}
    \cup {AuthPayload(TokenOf("alice"), "reconnect", c, WrongKey) : c \in DOMAIN connWs}

\* Frames under a `from` that is not the connection's own.
SpoofedFrames(conn) ==
    {BroadcastFrame(conn, ForeignNode, "g1", "m1")}
    \cup {BroadcastFrame(c, LocalNode, "g1", "m1") : c \in ConnIds \ {conn}}

\* The frames of the session specification on a socket whose ws.conn is
\* conn: the auth frames and one other frame before authentication,
\* afterwards group traffic under the connection's own `from` and under
\* another.
FramesFor(conn) ==
    IF conn = NoConn
    THEN {AuthFrame(p) : p \in AuthPayloads}
         \cup {BroadcastFrame(NoConn, LocalNode, "g1", "m1")}
    ELSE {JoinFrame(conn, LocalNode, "g1", Arr(<<"m1">>)),
          LeaveFrame(conn, LocalNode, "g1"),
          BroadcastFrame(conn, LocalNode, "g1", "m1")}
         \cup SpoofedFrames(conn)

InFlight == {<<s, i>> \in Sockets \X (1..MaxPending) : i <= Len(pendingAuthRequests[s])}

\* ----------------------------------------------------------------- actions

Describe(op, s, ws, msg, o) ==
    [op |-> op, sock |-> s, conn |-> ws.conn, branch |-> o.branch, routed |-> o.routed,
     type |-> msg.type, msg_type |-> msg.msg_type, group |-> msg.group,
     from_conn |-> msg.from_conn, from_node |-> msg.from_node,
     to_node |-> msg.to_node, to_conn |-> msg.to_conn, msg_id |-> msg.msg_id,
     payload |-> msg.payload]

ApplyOutcome(s, msg, o) ==
    /\ sockets' = [sockets EXCEPT ![s] = o.ws]
    /\ groups' = o.eff.groups
    /\ agentSubscriptions' = o.eff.subs
    /\ agents' = o.eff.agents
    /\ sessions' = o.eff.sessions
    /\ pendingAuthRequests' =
          IF o.submitted
          THEN [pendingAuthRequests EXCEPT ![s] = Append(@, msg.payload)]
          ELSE pendingAuthRequests
    /\ out' = o.eff.sends
    /\ bus' = o.eff.emits
    /\ UNCHANGED <<connWs, nextConn, PENDING_SOCKETS, ACTIVE_SOCKETS, timerVars,
                   allow_untrusted_agents, resumeRejected, peerVars, svcVars>>

\* Sockets are named in the order in which they connect.
Earlier(t, s) == <<t, s>> \in {<<"s1", "s2">>, <<"s1", "s3">>, <<"s2", "s3">>}

\* wss.on('connection'): handleWebSocket(ws, req, config), lines 32-48.
Connect(s) ==
    /\ sockets[s].readyState = "free"
    /\ \A t \in Sockets : Earlier(t, s) => sockets[t].readyState # "free"
    /\ sockets' = [sockets EXCEPT ![s] = [FreshSocket EXCEPT !.readyState = "open",
                                                              !.connectTimestamp = clock]]
    /\ PENDING_SOCKETS' = Append(PENDING_SOCKETS, s)
    /\ out' = << >>
    /\ bus' = << >>
    /\ last' = [op |-> "connect", sock |-> s]
    /\ UNCHANGED <<groupVars, registryVars, ACTIVE_SOCKETS, pendingAuthRequests,
                   timerVars, allow_untrusted_agents, resumeRejected, peerVars, svcVars, burst>>

Receiving(s) == sockets[s].readyState \in {"open", "closing"}

\* A frame that has passed validateIncomingAgentMessage arrives on socket s.
Receive(s, msg) ==
    /\ Receiving(s)
    /\ LET o == AfterValidation(s, sockets[s], msg)
       IN  /\ o.submitted => Cardinality(InFlight) < MaxPending
           /\ ApplyOutcome(s, msg, o)
           /\ last' = Describe("message", s, sockets[s], msg, o)
    /\ UNCHANGED burst

\* Removing a key of the PENDING_SOCKETS object keeps the order of the rest.
Without(seq, s) == SelectSeq(seq, LAMBDA x : x # s)

\* The callback of submitAuthRequest (agentServer.js:133-199) runs for the
\* i-th request in flight of socket s, with performLocalAuth's result.
AuthComplete(s, i) ==
    LET p == pendingAuthRequests[s][i]
        result == performLocalAuth(p, allow_untrusted_agents)
        resume == p.auth_type = "reconnect" /\ p.rc_conn # NoConn /\ p.rc_key # NoConn
        resumed == resumeAgent(agents, sessions, p.rc_conn, p.rc_key)
        granted == result.success /\ (resume => resumed # NoConn)
        new_conn == IF resume THEN resumed ELSE nextConn
        final_auth_key == IF resume THEN p.rc_key ELSE AuthKeyOf(nextConn)
    IN  /\ i \in 1..Len(pendingAuthRequests[s])
        /\ (result.success /\ ~resume) => nextConn \in ConnIds
        /\ pendingAuthRequests' =
              [pendingAuthRequests EXCEPT
                 ![s] = SubSeq(@, 1, i - 1) \o SubSeq(@, i + 1, Len(@))]
        /\ IF granted
           THEN /\ sockets' = [sockets EXCEPT ![s].conn = new_conn]
                /\ connWs' = MapSet(connWs, new_conn, s)
                /\ agents' = agents \cup {new_conn}
                /\ sessions' = IF resume THEN sessions
                               ELSE MapSet(sessions, new_conn, final_auth_key)
                /\ nextConn' = IF resume THEN nextConn ELSE nextConn + 1
                /\ timers' = IF resume /\ MapHas(cleanupTimeouts, new_conn)
                             THEN timers \ {cleanupTimeouts[new_conn]}
                             ELSE timers
                /\ cleanupTimeouts' = IF resume THEN MapDelete(cleanupTimeouts, new_conn)
                                      ELSE cleanupTimeouts
                /\ PENDING_SOCKETS' = Without(PENDING_SOCKETS, s)
                /\ ACTIVE_SOCKETS' = ACTIVE_SOCKETS \cup {s}
                /\ out' = <<[Sent(s, new_conn, "auth.ok", p.auth_type) EXCEPT
                               !.key = final_auth_key]>>
           ELSE /\ sockets' = [sockets EXCEPT ![s] = Closed(@)]
                /\ out' = <<rawSendControl(s, "auth.failed",
                              IF result.success THEN "Invalid resume credentials"
                              ELSE result.error)>>
                /\ UNCHANGED <<registryVars, timerVars, PENDING_SOCKETS, ACTIVE_SOCKETS>>
        /\ bus' = << >>
        /\ resumeRejected' = IF result.success /\ ~granted
                             THEN resumeRejected \cup {p.rc_conn}
                             ELSE resumeRejected
        /\ last' = [op |-> "auth", sock |-> s, payload |-> p, granted |-> granted]
        /\ UNCHANGED <<groupVars, allow_untrusted_agents, peerVars, svcVars, burst>>

\* ws.on('close') (agentServer.js:255-272).
Close(s) ==
    LET conn == sockets[s].conn
        armed == conn # NoConn /\ conn \in agents
    IN  /\ Receiving(s)
        /\ sockets' = [sockets EXCEPT ![s].readyState = "closed"]
        /\ timers' = IF armed THEN timers \cup {s} ELSE timers
        /\ cleanupTimeouts' = IF armed THEN MapSet(cleanupTimeouts, conn, s)
                              ELSE cleanupTimeouts
        /\ PENDING_SOCKETS' = IF armed THEN Without(PENDING_SOCKETS, s)
                              ELSE PENDING_SOCKETS
        /\ ACTIVE_SOCKETS' = IF armed THEN ACTIVE_SOCKETS \ {s} ELSE ACTIVE_SOCKETS
        /\ out' = << >>
        /\ bus' = << >>
        /\ last' = [op |-> "close", sock |-> s, conn |-> conn]
        /\ UNCHANGED <<groupVars, registryVars, pendingAuthRequests,
                       allow_untrusted_agents, resumeRejected, peerVars, svcVars, burst>>

\* The resume timer armed when socket t closed fires (agentServer.js:263-266):
\* it reads ws.conn when it runs.
TimerFire(t) ==
    LET conn == sockets[t].conn
        eff == cleanupAgent(conn)
    IN  /\ t \in timers
        /\ timers' = timers \ {t}
        /\ cleanupTimeouts' = MapDelete(cleanupTimeouts, conn)
        /\ groups' = eff.groups
        /\ agentSubscriptions' = eff.subs
        /\ agents' = eff.agents
        /\ sessions' = eff.sessions
        /\ out' = << >>
        /\ bus' = << >>
        /\ last' = [op |-> "timer", sock |-> t, conn |-> conn]
        /\ UNCHANGED <<connWs, nextConn, socketVars, allow_untrusted_agents,
                       resumeRejected, peerVars, svcVars, burst>>

\* performServerMaintenance (agentServer.js:276-293): the k sockets that have
\* been pending longest are older than connect_timeout and are closed.
Sweep(k) ==
    LET old == {PENDING_SOCKETS[i] : i \in 1..k}
    IN  /\ k \in 1..Len(PENDING_SOCKETS)
        /\ sockets' = [s \in Sockets |->
                         IF s \in old THEN Closed(sockets[s]) ELSE sockets[s]]
        /\ PENDING_SOCKETS' = SubSeq(PENDING_SOCKETS, k + 1, Len(PENDING_SOCKETS))
        /\ out' = << >>
        /\ bus' = << >>
        /\ last' = [op |-> "sweep", closed |-> old]
        /\ UNCHANGED <<groupVars, registryVars, ACTIVE_SOCKETS, pendingAuthRequests,
                       timerVars, allow_untrusted_agents, resumeRejected, peerVars, svcVars, burst>>

\* The sweep that spares a socket for one second more than connect_timeout.
performServerMaintenanceMutant(socks, pending, now) ==
    LET old == {s \in Sockets :
                  /\ \E i \in 1..Len(pending) : pending[i] = s
                  /\ socks[s].connectTimestamp < now - CONNECT_TIMEOUT - 1}
    IN  [sockets |-> [s \in Sockets |-> IF s \in old THEN Closed(socks[s]) ELSE socks[s]],
         pending |-> SelectSeq(pending, LAMBDA s : s \notin old),
         closed |-> old]

\* performServerMaintenance (agentServer.js:276-293) at time now, in seconds:
\* every socket of PENDING_SOCKETS whose connectTimestamp is before
\* now - connect_timeout is closed and deleted from PENDING_SOCKETS.
performServerMaintenance(socks, pending, now) ==
    LET old == {s \in Sockets :
                  /\ \E i \in 1..Len(pending) : pending[i] = s
                  /\ socks[s].connectTimestamp < now - CONNECT_TIMEOUT}
    IN  [sockets |-> [s \in Sockets |-> IF s \in old THEN Closed(socks[s]) ELSE socks[s]],
         pending |-> SelectSeq(pending, LAMBDA s : s \notin old),
         closed |-> old]

\* One run of the maintenance interval (agentServer.js:315-317).
Maintenance ==
    LET r == performServerMaintenance(sockets, PENDING_SOCKETS, clock)
    IN  /\ sockets' = r.sockets
        /\ PENDING_SOCKETS' = r.pending
        /\ out' = << >>
        /\ bus' = << >>
        /\ last' = [op |-> "maintenance", closed |-> r.closed]
        /\ UNCHANGED <<groupVars, registryVars, ACTIVE_SOCKETS, pendingAuthRequests,
                       timerVars, allow_untrusted_agents, resumeRejected, peerVars, svcVars, burst>>

\* part_009:407-411
DefaultAuthConfig == [order |-> <<"local">>, max_tries |-> 2]

\* The services as the other specifications find them: the default auth
\* config and a trust validator created over a good file.
InitRouterDefault ==
    InitIdentity([node_identifier |-> FALSE, crash_on_corrupt |-> FALSE], NoFile, LocalNode)

InitServices ==
    /\ authConfig = DefaultAuthConfig
    /\ InitTrustValidator("A")
    /\ InitRouterDefault
    /\ InitNodeMessages

Init ==
    /\ InitState
    /\ InitServices
    /\ allow_untrusted_agents = FALSE

Next ==
    \/ \E s \in SessionSockets : Connect(s)
    \/ \E s \in SessionSockets : \E msg \in FramesFor(sockets[s].conn) : Receive(s, msg)
    \/ \E s \in SessionSockets, i \in 1..MaxPending : AuthComplete(s, i)
    \/ \E s \in SessionSockets : Close(s)
    \/ \E t \in SessionSockets : TimerFire(t)

Spec == Init /\ [][Next]_vars

\* The resume specification: three sockets, one after the other or at the
\* same time, for one logical connection with one auth request in flight.
ResumeFrames(conn) ==
    IF conn = NoConn
    THEN {AuthFrame(AuthPayload(t, "standard", NoConn, NoConn)) :
             t \in {TokenOf("alice"), TokenOf("mallory"), NoToken, GarbageToken}}
         \cup {AuthFrame(AuthPayload(TokenOf("alice"), "reconnect", c, AuthKeyOf(c))) :
                 c \in DOMAIN connWs}
    ELSE {JoinFrame(conn, LocalNode, "g1", Arr(<<"m1">>))}

NextResume ==
    \/ \E s \in Sockets : Connect(s)
    \/ \E s \in Sockets : \E msg \in ResumeFrames(sockets[s].conn) :
          InFlight = {} /\ Receive(s, msg)
    \/ \E s \in Sockets : AuthComplete(s, 1) /\ nextConn' <= 2
    \/ \E s \in Sockets : Close(s)
    \/ \E t \in Sockets : TimerFire(t)
    \/ \E k \in 1..Cardinality(Sockets) : Sweep(k)

SpecResume == Init /\ [][NextResume]_vars

\* ------------------------------------------------ the routing specification

DisconnectFrame(c, n) == Msg("control", "disconnect", c, n)

\* The direct frames of a connection: to every connection id of the local
\* node, registered or not, to another node and without a target, with two
\* msg_ids and two payloads.
DirectFrames(conn) ==
    {[DirectFrame(conn, LocalNode, LocalNode, tc) EXCEPT
        !.msg_id = id, !.payload = [NoPayload EXCEPT !.ping = p]] :
        tc \in ConnIds \cup {UnknownConn}, id \in {"uuid", "uuid-2"}, p \in {"ok", "data"}}
    \cup {DirectFrame(conn, LocalNode, ForeignNode, UnknownConn),
          DirectFrame(conn, LocalNode, "", NoConn)}

\* New sessions on two sockets, one auth request at a time, then group
\* joins with good and bad payloads, broadcasts, direct frames and disconnect
\* under the connection's own `from`.
RouteFrames(conn) ==
    IF conn = NoConn
    THEN {AuthFrame(AuthPayload(TokenOf("alice"), "standard", NoConn, NoConn))}
    ELSE {JoinFrame(conn, LocalNode, "g1", Arr(<<"m1">>)),
          JoinFrame(conn, LocalNode, NotAString, Arr(<<"m1">>)),
          JoinFrame(conn, LocalNode, "g1", Arr(<< >>)),
          JoinFrame(conn, LocalNode, "g1", NotAnArray),
          BroadcastFrame(conn, LocalNode, "g1", "m1"),
          DisconnectFrame(conn, LocalNode)}
         \cup DirectFrames(conn)

NextRoute ==
    \/ \E s \in SessionSockets : Connect(s)
    \/ \E s \in SessionSockets : \E msg \in RouteFrames(sockets[s].conn) :
          InFlight = {} /\ Receive(s, msg)
    \/ \E s \in SessionSockets : AuthComplete(s, 1)
    \/ \E s \in SessionSockets : Close(s)
    \/ \E t \in SessionSockets : TimerFire(t)

SpecRoute == Init /\ [][NextRoute]_vars

\* ------------------------------------------- the auth manager specification

SetAuthState(st) ==
    /\ authRequests' = st.pending
    /\ authAttempts' = st.attempts
    /\ authDone' = st.done

AuthFrame_vars ==
    <<groupVars, agentVars, resumeRejected, peerVars, trustVars, idVars, nodeMsgVars,
      out, bus, burst>>

\* What an auth manager step did to request `id`.
AuthStep(op, id, n, outcome, won) ==
    [op |-> op, id |-> id, n |-> n, outcome |-> outcome, won |-> won,
     pending |-> MapHas(authRequests, id),
     tries |-> IF MapHas(authRequests, id) THEN authRequests[id] ELSE 0]

\* submitAuthRequest (part_009:450-459).
SubmitAuthRequest ==
    LET id == nextAuthRequestId
        st == [AuthState EXCEPT !.pending = MapSet(@, id, 0)]
    IN  /\ id <= MaxAuthRequests
        /\ nextAuthRequestId' = id + 1
        /\ SetAuthState(attemptAuth(st, id))
        /\ last' = AuthStep("submit", id, 0, "", FALSE)
        /\ UNCHANGED <<authConfig, AuthFrame_vars>>

\* The promise of the method of attempt n settles. It settles the race
\* unless the timer has done so.
MethodSettles(id, n, outcome) ==
    LET a == authAttempts[<<id, n>>]
        st == [AuthState EXCEPT !.attempts[<<id, n>>] =
                                   [@ EXCEPT !.method = "done", !.settled = TRUE]]
    IN  /\ a.method = "pending"
        /\ outcome \in MethodOutcomes(a.methodName)
        /\ SetAuthState(IF a.settled
                        THEN [st EXCEPT !.done[id].late = TRUE]
                        ELSE raceSettled(st, id, n, outcome))
        /\ last' = AuthStep("method",  id, n,
                            IF outcome.settled = "rejected" THEN "rejected"
                            ELSE IF outcome.result.success THEN "success" ELSE "failure",
                            ~a.settled)
        /\ UNCHANGED <<authConfig, nextAuthRequestId, AuthFrame_vars>>

\* The setTimeout of attempt n fires (part_009:505-507); the timer is never
\* cleared, so it fires after the method has settled too.
AuthTimeout(id, n) ==
    LET a == authAttempts[<<id, n>>]
        st == [AuthState EXCEPT !.attempts[<<id, n>>] =
                                   [@ EXCEPT !.timer = "fired", !.settled = TRUE]]
    IN  /\ a.timer = "armed"
        /\ SetAuthState(IF a.settled
                        THEN st
                        ELSE raceSettled(st, id, n,
                                [settled |-> "rejected",
                                 result |-> AuthResult(FALSE, "Auth timeout")]))
        /\ last' = AuthStep("timeout", id, n, "timeout", ~a.settled)
        /\ UNCHANGED <<authConfig, nextAuthRequestId, AuthFrame_vars>>

\* handleAuthAgentReply (part_009:548-557).
HandleAuthAgentReply(id, success) ==
    /\ SetAuthState(finishAuthRequest(AuthState, id, AuthResult(success, "")))
    /\ last' = AuthStep("reply", id, 0, IF success THEN "success" ELSE "failure", FALSE)
    /\ UNCHANGED <<authConfig, nextAuthRequestId, AuthFrame_vars>>

InitAuth ==
    /\ InitState
    /\ allow_untrusted_agents = FALSE
    /\ InitTrustValidator("A")
    /\ InitRouterDefault
    /\ InitNodeMessages
    /\ authConfig \in [order : AuthOrders, max_tries : 1..MaxTries]

NextAuth ==
    \/ SubmitAuthRequest
    \/ \E id \in AuthIds, n \in 1..MaxOrder :
          \E outcome \in MethodOutcomes(authAttempts[<<id, n>>].methodName) :
             MethodSettles(id, n, outcome)
    \/ \E id \in AuthIds, n \in 1..MaxOrder : AuthTimeout(id, n)
    \/ \E id \in AuthIds \cup {UnknownAuthId}, success \in BOOLEAN :
          HandleAuthAgentReply(id, success)

SpecAuth == InitAuth /\ [][NextAuth]_vars

\* The auth manager with every timer that is armed firing in the end, under
\* the orders above and under orders that name an unconfigured method.  The
\* promise of a method may never settle.
InitAuthLive ==
    /\ InitState
    /\ allow_untrusted_agents = FALSE
    /\ InitTrustValidator("A")
    /\ InitRouterDefault
    /\ InitNodeMessages
    /\ authConfig \in [order : AuthOrders \cup GhostOrders, max_tries : 1..MaxTries]

TimersFire == \A id \in AuthIds, n \in 1..MaxOrder : WF_vars(AuthTimeout(id, n))

SpecAuthLive == InitAuthLive /\ [][NextAuth]_vars /\ TimersFire

\* ---------------------------------------- the trust validator specification

TrustFrame_vars ==
    <<groupVars, agentVars, resumeRejected, peerVars, authMgrVars, idVars, nodeMsgVars,
      out, bus, burst>>

\* What a trust validator step did.
TrustStep(op, r, answer) ==
    [op |-> op, read |-> r.read, failed |-> r.failed, answer |-> answer,
     age |-> clock - lastLoaded, loadedBefore |-> lastLoaded > 0]

\* isTokenTrusted(token, extra_tokens, required_purposes) (part_008:68-98)
IsTokenTrusted(token, purposes) ==
    LET r == loadTrustedConfig(FALSE, trustConfig, lastLoaded, trustFile, clock)
    IN  /\ trustConfig' = r.trustConfig
        /\ lastLoaded' = r.lastLoaded
        /\ last' = TrustStep("isTokenTrusted", r,
                             verifyTrustChain(token, r.trustConfig, purposes))
        /\ UNCHANGED <<trustFile, clock, TrustFrame_vars>>

\* forceReload() (part_008:59-61)
ForceReload ==
    LET r == loadTrustedConfig(TRUE, trustConfig, lastLoaded, trustFile, clock)
    IN  /\ trustConfig' = r.trustConfig
        /\ lastLoaded' = r.lastLoaded
        /\ last' = TrustStep("forceReload", r, FALSE)
        /\ UNCHANGED <<trustFile, clock, TrustFrame_vars>>

\* Somebody rewrites, breaks or removes the file.
WriteTrustFile(file) ==
    /\ file # trustFile
    /\ trustFile' = file
    /\ last' = [op |-> "write"]
    /\ UNCHANGED <<trustConfig, lastLoaded, clock, TrustFrame_vars>>

\* Time passes.
Tick ==
    /\ clock < MaxClock
    /\ clock' = clock + 1
    /\ last' = [op |-> "tick"]
    /\ UNCHANGED <<trustConfig, lastLoaded, trustFile, TrustFrame_vars>>

InitTrust ==
    /\ InitState
    /\ allow_untrusted_agents = FALSE
    /\ authConfig = DefaultAuthConfig
    /\ InitRouterDefault
    /\ InitNodeMessages
    /\ \E file \in TrustFiles : InitTrustValidator(file)

NextTrust ==
    \/ \E token \in TrustTokens, purposes \in TrustPurposes :
          IsTokenTrusted(token, purposes)
    \/ ForceReload
    \/ \E file \in TrustFiles : WriteTrustFile(file)
    \/ Tick

SpecTrust == InitTrust /\ [][NextTrust]_vars

\* The maintenance specification: sockets that connect at different seconds,
\* authenticate as a new session or by resuming one, or do neither, while
\* the clock advances and the maintenance interval runs.
SweepFrames(conn) ==
    IF conn = NoConn
    THEN {AuthFrame(AuthPayload(TokenOf("alice"), "standard", NoConn, NoConn))}
         \cup {AuthFrame(AuthPayload(TokenOf("alice"), "reconnect", c, AuthKeyOf(c))) :
                 c \in DOMAIN connWs}
         \cup {AuthFrame(AuthPayload(TokenOf("alice"), "reconnect", c, WrongKey)) :
                 c \in DOMAIN connWs}
    ELSE {}

NextSweep ==
    \/ \E s \in SessionSockets : Connect(s)
    \/ \E s \in SessionSockets : \E msg \in SweepFrames(sockets[s].conn) :
          InFlight = {} /\ Receive(s, msg)
    \/ \E s \in SessionSockets : AuthComplete(s, 1)
    \/ \E s \in SessionSockets : Close(s)
    \/ \E t \in SessionSockets : TimerFire(t)
    \/ Tick
    \/ Maintenance

SpecSweep == Init /\ [][NextSweep]_vars

\* ------------------------------------------- the node identity specification

IdFrame_vars ==
    <<groupVars, agentVars, resumeRejected, peerVars, authMgrVars, trustVars,
      nodeMsgVars, out, bus, burst>>

\* What an identity step was and what the accessors returned before it.
IdStep(op, arg) ==
    [op |-> op, arg |-> arg, nodeId |-> routerNodeId, statusNodeId |-> statusNodeId,
     file |-> persistFile]

\* maybeChangeNodeId(newId) (part_006:256-265)
MaybeChangeNodeId(newId) ==
    /\ proc = "up"
    /\ IF isUuid(newId)
       THEN /\ routerNodeId' = newId
            /\ panNodeId' = newId
            /\ persistFile' = persistNodeId(newId, persistFile)
       ELSE UNCHANGED <<routerNodeId, panNodeId, persistFile>>
    /\ last' = IdStep("maybeChangeNodeId", newId)
    /\ UNCHANGED <<statusNodeId, routerConfig, proc, IdFrame_vars>>

\* shutdown() (part_006:270-276)
RouterShutdown ==
    /\ proc = "up"
    /\ persistFile' = IF isUuid(routerNodeId)
                      THEN persistNodeId(routerNodeId, persistFile)
                      ELSE persistFile
    /\ last' = IdStep("shutdown", "")
    /\ UNCHANGED <<routerNodeId, statusNodeId, panNodeId, routerConfig, proc, IdFrame_vars>>

\* The process ends, by shutdown or without it, and is started again with
\* the same configuration: every module variable starts afresh and main
\* runs initialize, in which uuidv4() may draw `drawn`.
Restart(graceful, drawn) ==
    LET file == IF graceful /\ isUuid(routerNodeId)
                THEN persistNodeId(routerNodeId, persistFile)
                ELSE persistFile
        r == initialize(routerConfig, file, drawn)
    IN  /\ proc = "up"
        /\ proc' = r.proc
        /\ routerNodeId' = r.nodeId
        /\ statusNodeId' = r.nodeId
        /\ panNodeId' = ""
        /\ persistFile' = r.file
        /\ last' = IdStep("restart", IF graceful THEN "shutdown" ELSE "crash")
        /\ UNCHANGED <<routerConfig, IdFrame_vars>>

InitId ==
    /\ InitState
    /\ allow_untrusted_agents = FALSE
    /\ authConfig = DefaultAuthConfig
    /\ InitTrustValidator("A")
    /\ InitNodeMessages
    /\ \E config \in RouterConfigs, file \in PersistFiles, drawn \in RandomIds :
          InitIdentity(config, file, drawn)

NextId ==
    \/ \E newId \in Uuids \cup {"garbage", ""} : MaybeChangeNodeId(newId)
    \/ RouterShutdown
    \/ \E graceful \in BOOLEAN, drawn \in RandomIds : Restart(graceful, drawn)

SpecId == InitId /\ [][NextId]_vars

\* ------------------------------------------- the nodeMessages specification

\* The payload of every emit, each different from the others.
Payloads == [k \in 1..(MaxEmits + 1) |-> k]

BusFrame_vars ==
    <<groupVars, agentVars, resumeRejected, peerVars, authMgrVars, trustVars,
      idVars, out, bus, burst>>

RECURSIVE CountIn(_)
CountIn(es) ==
    IF es = {} THEN 0
    ELSE LET e == CHOOSE x \in es : TRUE
         IN  Len(handlers[e].fns) + CountIn(es \ {e})

\* The handlers registered now, over all events.
Registered == CountIn(Events)

On(eventName, fn) ==
    /\ Registered < MaxHandlers
    /\ handlers' = on(handlers, eventName, fn)
    /\ last' = [op |-> "on"]
    /\ UNCHANGED <<immediates, emitted, BusFrame_vars>>

Off(eventName, fn) ==
    /\ handlers' = off(handlers, eventName, fn)
    /\ last' = [op |-> "off"]
    /\ UNCHANGED <<immediates, emitted, BusFrame_vars>>

\* emit returns before any immediate runs.
Emit(eventName, payload) ==
    LET k == Len(emitted) + 1
    IN  /\ k <= MaxEmits
        /\ immediates' = emit(handlers, immediates, k, eventName, payload)
        /\ emitted' = Append(emitted,
              [event |-> eventName, payload |-> payload,
               registered |-> handlers[eventName].fns,
               calls |-> << >>])
        /\ last' = [op |-> "emit", emit |-> k]
        /\ UNCHANGED <<handlers, BusFrame_vars>>

\* The event loop runs the oldest immediate (part_014:24-30): the handler
\* is called with the payload and may throw, which is caught and logged.
RunImmediate ==
    /\ immediates # << >>
    /\ LET i == Head(immediates)
       IN  /\ emitted' = [emitted EXCEPT
                            ![i.emit].calls = Append(@, [fn |-> i.fn, payload |-> i.payload])]
           /\ last' = [op |-> "run", threw |-> Throws(i.fn)]
    /\ immediates' = Tail(immediates)
    /\ UNCHANGED <<handlers, BusFrame_vars>>

InitBus ==
    /\ InitState
    /\ allow_untrusted_agents = FALSE
    /\ authConfig = DefaultAuthConfig
    /\ InitTrustValidator("A")
    /\ InitRouterDefault
    /\ InitNodeMessages

NextBus ==
    \/ \E e \in Events, fn \in Fns : On(e, fn)
    \/ \E e \in Events, fn \in Fns : Off(e, fn)
    \/ \E e \in Events : Emit(e, Payloads[Len(emitted) + 1])
    \/ RunImmediate

SpecBus == InitBus /\ [][NextBus]_vars

\* ------------------------------------------------- the wire specification

\* One socket and the frames a client puts on it, through the whole
\* 'message' handler.
WireSockets == {"s1"}
MaxBurst == 2 * MESSAGE_LIMIT + 1

\* A frame off the wire: its length, whether JSON.parse takes it, and what
\* JSON.parse returns.
Wire(msg) == [bytes |-> 1, json |-> TRUE, msg |-> msg]

WireAuthFrames ==
    {Wire(AuthFrame(AuthPayload(t, "standard", NoConn, NoConn))) :
        t \in {TokenOf("alice"), TokenOf("mallory"), NoToken, GarbageToken}}

WireFrames ==
    WireAuthFrames
    \cup {Wire([AuthFrame(AuthPayload(TokenOf("alice"), "standard", NoConn, NoConn))
                  EXCEPT !.type = "agent_control"]),
          Wire(BroadcastFrame(NoConn, LocalNode, "g1", "m1")),
          Wire(DirectFrame(NoConn, LocalNode, LocalNode, UnknownConn)),
          Wire([BroadcastFrame(NoConn, LocalNode, "g1", "m1") EXCEPT !.ttl = MAX_TTL + 1]),
          [Wire(BroadcastFrame(NoConn, LocalNode, "g1", "m1")) EXCEPT
             !.bytes = MAX_MESSAGE_BYTES + 1],
          [Wire(BroadcastFrame(NoConn, LocalNode, "g1", "m1")) EXCEPT
             !.bytes = MAX_MESSAGE_BYTES + 1, !.json = FALSE],
          [Wire(BroadcastFrame(NoConn, LocalNode, "g1", "m1")) EXCEPT
             !.bytes = MAX_MESSAGE_BYTES],
          [Wire(BroadcastFrame(NoConn, LocalNode, "g1", "m1")) EXCEPT
             !.bytes = MAX_MESSAGE_BYTES, !.json = FALSE],
          [Wire(BroadcastFrame(NoConn, LocalNode, "g1", "m1")) EXCEPT !.json = FALSE]}

\* ws.on('message') (agentServer.js:54-250) for a frame that arrives
\* `elapsed` ticks after the socket's previous frame. `mark` starts the
\* count of a new burst at this frame.
Message(s, frame, elapsed, mark) ==
    LET o == OnMessage(s, sockets[s], frame, elapsed)
        violation == track(sockets[s], elapsed).violation
    IN  /\ Receiving(s)
        /\ sockets[s].spamViolations <= DISCONNECT_THRESHOLD
        /\ sockets[s].msg_errors <= MAX_ERRORS_BEFORE_DISCONNECT
        /\ mark \/ burst.count > 0
        /\ o.submitted => Cardinality(InFlight) < MaxPending
        /\ ApplyOutcome(s, frame.msg, o)
        /\ burst' = IF mark
                    THEN [count |-> 1, elapsed |-> 0, violated |-> violation]
                    ELSE [count |-> Min(burst.count + 1, MaxBurst),
                          elapsed |-> Min(burst.elapsed + elapsed, MaxElapsed),
                          violated |-> burst.violated \/ violation]
        /\ last' = [wire |-> TRUE, frame |-> frame, violation |-> violation]
                   @@ Describe("message", s, sockets[s], frame.msg, o)

InitWire ==
    /\ InitState
    /\ InitServices
    /\ allow_untrusted_agents \in BOOLEAN

\* Every kind of frame, each either at once after the previous frame or a
\* full window later.
NextWire ==
    \/ \E s \in WireSockets : Connect(s)
    \/ \E s \in WireSockets, frame \in WireFrames, elapsed \in {0, MaxElapsed} :
          Message(s, frame, elapsed, TRUE)
    \/ \E s \in WireSockets : Close(s)
    \/ Sweep(1)

SpecWire == InitWire /\ [][NextWire]_vars

\* The spam specification: frames that pass or fail the size check, at every
\* spacing up to a window, with a burst counted from any frame.
SpamFrames ==
    {Wire(BroadcastFrame(NoConn, LocalNode, "g1", "m1")),
     [Wire(BroadcastFrame(NoConn, LocalNode, "g1", "m1")) EXCEPT
        !.bytes = MAX_MESSAGE_BYTES + 1]}

NextSpam ==
    \/ \E s \in WireSockets : Connect(s)
    \/ \E s \in WireSockets, frame \in SpamFrames,
          elapsed \in (0..MaxElapsed) \cup {LongIdle},
          mark \in BOOLEAN : Message(s, frame, elapsed, mark)
    \/ \E s \in WireSockets : Close(s)
    \/ Sweep(1)

SpecSpam == Init /\ [][NextSpam]_vars

\* The error-count specification: schema-valid and schema-invalid frames,
\* each at once after the previous frame or after a long idle time.
ErrorFrames ==
    {Wire(BroadcastFrame(NoConn, LocalNode, "g1", "m1")),
     Wire(DirectFrame(NoConn, LocalNode, LocalNode, UnknownConn)),
     Wire([BroadcastFrame(NoConn, LocalNode, "g1", "m1") EXCEPT !.ttl = MAX_TTL + 1])}

NextErrors ==
    \/ \E s \in WireSockets : Connect(s)
    \/ \E s \in WireSockets, frame \in ErrorFrames, elapsed \in {0, 1, LongIdle} :
          Message(s, frame, elapsed, TRUE)
    \/ \E s \in WireSockets : Close(s)

SpecErrors == InitWire /\ [][NextErrors]_vars

\* ------------------------------------------------- the peer specification

\* A token of a peer hello: its issuer and the node_id it carries.
PeerToken(iss, node_id) ==
    [present |-> TRUE, valid |-> TRUE, iss |-> iss, node_id |-> node_id]
NoPeerToken == [present |-> FALSE, valid |-> FALSE, iss |-> "none", node_id |-> ""]
GarbagePeerToken == [present |-> TRUE, valid |-> FALSE, iss |-> "none", node_id |-> ""]

\* The first frame of a peer socket: whether JSON.parse takes it, whether
\* its base fields are valid, its type and msg_type, payload.token and
\* payload.node_id.
Hello(token, node_id) ==
    [json |-> TRUE, validBase |-> TRUE, type |-> "peer_control", msg_type |-> "hello",
     token |-> token, node_id |-> node_id]

PeerIssuers == {"node-a", "node-b", "mallory"}

HelloFrames ==
    {Hello(PeerToken(iss, tn), pn) : iss \in PeerIssuers, tn \in NodeIds, pn \in NodeIds}
    \cup {Hello(t, "n1") : t \in {NoPeerToken, GarbagePeerToken, PeerToken("node-a", "")}}
    \cup {[Hello(NoPeerToken, "n1") EXCEPT !.json = FALSE],
          [Hello(NoPeerToken, "n1") EXCEPT !.validBase = FALSE],
          [Hello(NoPeerToken, "n1") EXCEPT !.type = "agent_control"],
          [Hello(NoPeerToken, "n1") EXCEPT !.msg_type = "ping"]}

\* peerRegistry.registerPeer(nodeId, peerConnection) and getPeer(nodeId)
registerPeer(reg, nodeId, peerConnection) == MapSet(reg, nodeId, peerConnection)
HasPeer(reg, nodeId) == MapHas(reg, nodeId)

\* new PeerConnection(ws, nodeId, router, details)
PeerConnection(ws, nodeId, token) ==
    [ws |-> ws, nodeId |-> nodeId, vouchsafe_id |-> token.iss, connect_token |-> token]

PeerOutcome(reg, sends, close) == [peers |-> reg, sends |-> sends, close |-> close]

AccessDenied(ws) == <<rawSendError(ws, "unknown")>>

\* handleConnection's once('message') handler (part_002:279-440) for the
\* first frame of peer socket ws.
handleConnection(ws, msg) ==
    IF ~msg.json \/ ~msg.validBase
    THEN PeerOutcome(peers, << >>, TRUE)
    ELSE IF msg.type = "peer_control" /\ msg.msg_type = "hello"
    THEN IF ~validatePeerMessage(msg) \/ ~msg.token.present
         THEN PeerOutcome(peers, << >>, TRUE)
         ELSE IF validateTokenThrows(msg.token)
         THEN PeerOutcome(peers, AccessDenied(ws), TRUE)
         ELSE IF msg.token.node_id = ""
         THEN PeerOutcome(peers, << >>, TRUE)
         ELSE IF ~isTokenTrusted(msg.token, {"peer-connect"})
         THEN PeerOutcome(peers, AccessDenied(ws), TRUE)
         ELSE IF /\ HasPeer(peers, msg.token.node_id)
                 /\ peers[msg.token.node_id].vouchsafe_id # msg.token.iss
         THEN PeerOutcome(peers, AccessDenied(ws), TRUE)
         \* registerPeer, then `${node_id}` of the log line throws a
         \* ReferenceError that the catch of line 385 answers.
         ELSE PeerOutcome(registerPeer(peers, msg.node_id,
                                       PeerConnection(ws, msg.node_id, msg.token)),
                          AccessDenied(ws), TRUE)
    ELSE PeerOutcome(peers, << >>, TRUE)

\* wss.on('connection') of the peer server.
PeerConnect(s) ==
    /\ peerSockets[s] = "free"
    /\ peerSockets' = [peerSockets EXCEPT ![s] = "open"]
    /\ out' = << >>
    /\ last' = [op |-> "peer_connect", sock |-> s]
    /\ UNCHANGED <<groupVars, agentVars, resumeRejected, peers, bus, burst, svcVars>>

\* The first frame arrives on peer socket s.
PeerHandshake(s, msg) ==
    LET o == handleConnection(s, msg)
    IN  /\ peerSockets[s] = "open"
        /\ peers' = o.peers
        /\ peerSockets' = [peerSockets EXCEPT ![s] = IF o.close THEN "closed" ELSE "peer"]
        /\ out' = o.sends
        /\ last' = [op |-> "hello", sock |-> s, msg |-> msg]
        /\ UNCHANGED <<groupVars, agentVars, resumeRejected, bus, burst, svcVars>>

NextPeer ==
    \/ \E s \in PeerSockets : PeerConnect(s)
    \/ \E s \in PeerSockets, msg \in HelloFrames : PeerHandshake(s, msg)

SpecPeer == Init /\ [][NextPeer]_vars

GJoinGroup(c, g, mts) ==
    LET r == joinGroup(Index, c, g, mts)
    IN  /\ groups' = r.groups
        /\ agentSubscriptions' = r.subs
        /\ UNCHANGED <<agentVars, resumeRejected, peerVars, svcVars, out, bus, burst>>
        /\ last' = [op |-> "joinGroup", conn |-> c, group |-> g, threw |-> r.threw,
                    wanted |-> IF mts.isArray
                               THEN Cardinality(
                                      (IF MapHas(agentSubscriptions, c)
                                          /\ MapHas(agentSubscriptions[c], g)
                                       THEN agentSubscriptions[c][g] ELSE {})
                                      \cup Elements(mts.items))
                               ELSE 0]

GLeaveGroup(c, g) ==
    LET r == leaveGroup(Index, c, g)
    IN  /\ groups' = r.groups
        /\ agentSubscriptions' = r.subs
        /\ UNCHANGED <<agentVars, resumeRejected, peerVars, svcVars, out, bus, burst>>
        /\ last' = [op |-> "leaveGroup", conn |-> c, group |-> g, threw |-> FALSE,
                    wanted |-> 0,
                    held |-> IF MapHas(agentSubscriptions, c)
                                /\ MapHas(agentSubscriptions[c], g)
                             THEN Cardinality(agentSubscriptions[c][g]) ELSE 0]

GRemoveAgentFromAllGroups(c) ==
    LET r == removeAgentFromAllGroups(Index, c)
    IN  /\ groups' = r.groups
        /\ agentSubscriptions' = r.subs
        /\ UNCHANGED <<agentVars, resumeRejected, peerVars, svcVars, out, bus, burst>>
        /\ last' = [op |-> "removeAgentFromAllGroups", conn |-> c, group |-> "g1",
                    threw |-> FALSE, wanted |-> 0,
                    held |-> Cardinality(getAgentGroups(Index, c))]

InitGroup ==
    /\ InitState
    /\ InitServices
    /\ allow_untrusted_agents = TRUE


NextGroup ==
    \/ \E c \in GroupConns, g \in GroupIds, mts \in JoinInputs : GJoinGroup(c, g, mts)
    \/ \E c \in GroupConns, g \in GroupIds : GLeaveGroup(c, g)
    \/ \E c \in GroupConns : GRemoveAgentFromAllGroups(c)

SpecGroup == InitGroup /\ [][NextGroup]_vars

\* ------------------------------------------------------------------ claims

AgentSubsOf(c, g) ==
    IF MapHas(agentSubscriptions, c) /\ MapHas(agentSubscriptions[c], g)
    THEN agentSubscriptions[c][g]
    ELSE {}

\* C1: in every reachable state of the group index, also after a joinGroup
\* that threw, conn is in getGroupRecipients(group, msg_type) if and only if
\* msg_type is in agentSubscriptions[conn][group].
C1_GroupSymmetry ==
    \A c \in GroupConns, g \in GroupIds, m \in MsgTypes :
        (c \in getGroupRecipients(groups, g, m)) <=> (m \in AgentSubsOf(c, g))

\* A join that threw past the cap has left a connection subscribed, beside
\* another connection subscribed to the same (group, msg_type).
C1_Witness ==
    /\ last.op = "joinGroup" /\ last.threw
    /\ \E c \in GroupConns, d \in GroupConns, g \in GroupIds, m \in MsgTypes :
          c # d /\ {c, d} \subseteq getGroupRecipients(groups, g, m)

\* C2: no (conn, group) pair is subscribed to more than 100 distinct
\* msg_types in either index, and a joinGroup call that would take the pair
\* above 100 raises an error.
C2_CapNeverExceeded ==
    /\ \A c \in GroupConns, g \in GroupIds :
          /\ Cardinality(AgentSubsOf(c, g)) <= MAX_MSG_TYPES
          /\ Cardinality({m \in MsgTypes : c \in getGroupRecipients(groups, g, m)})
                <= MAX_MSG_TYPES
    /\ (last.op = "joinGroup" /\ last.wanted > MAX_MSG_TYPES) => last.threw



\* The registered connections other than A that are subscribed to (G, M).
Subscribers(A, G, M) == {c \in agents \ {A} : M \in AgentSubsOf(c, G)}

BroadcastsTo(c) ==
    {j \in 1..Len(out) : out[j].kind = "broadcast" /\ out[j].conn = c}

C4_ResumeKeepsConnection ==
    [][ (/\ last'.op = "auth"
         /\ last'.payload.auth_type = "reconnect"
         /\ last'.payload.rc_conn \in agents
         /\ MapHas(sessions, last'.payload.rc_conn)
         /\ sessions[last'.payload.rc_conn] = last'.payload.rc_key
         /\ MapHas(cleanupTimeouts, last'.payload.rc_conn)
         /\ cleanupTimeouts[last'.payload.rc_conn] \in timers)
        => LET c == last'.payload.rc_conn
               s == last'.sock
           IN  /\ sockets'[s].conn = c
               /\ connWs'[c] = s
               /\ c \in agents'
               /\ UNCHANGED groupVars
               /\ \A t \in timers' : sockets'[t].conn # c
               /\ out' = <<[Sent(s, c, "auth.ok", "reconnect") EXCEPT
                              !.key = last'.payload.rc_key]>> ]_vars

\* C5: a reconnect that presents a wrong auth_key for a registered conn_id is
\* answered auth.failed 'Invalid resume credentials', its socket is closed
\* and the connection is not rebound; and when the cleanup timer recorded
\* for such a connection expires, the connection is unregistered and all
\* its subscriptions are removed.
C5_WrongKeyRejectedThenCleanup ==
    [][ /\ (/\ last'.op = "auth"
            /\ last'.payload.auth_type = "reconnect"
            /\ last'.payload.rc_conn \in agents
            /\ MapHas(sessions, last'.payload.rc_conn)
            /\ sessions[last'.payload.rc_conn] # last'.payload.rc_key)
           => /\ out' = <<rawSendControl(last'.sock, "auth.failed",
                                         "Invalid resume credentials")>>
              /\ sockets'[last'.sock].readyState # "open"
              /\ sockets'[last'.sock].conn = sockets[last'.sock].conn
              /\ UNCHANGED <<registryVars, groupVars, timerVars>>
        /\ \A c \in resumeRejected :
              (/\ last'.op = "timer"
               /\ MapHas(cleanupTimeouts, c)
               /\ cleanupTimeouts[c] = last'.sock)
              => /\ c \notin agents'
                 /\ ~MapHas(sessions', c)
                 /\ ~MapHas(agentSubscriptions', c) ]_vars

\* C6: on a socket bound to connection C, a frame whose from.conn_id is not
\* C's id or whose from.node_id is not the local node closes the socket and
\* is never passed to the router: nothing is delivered, no subscription
\* changes and nothing is emitted on the bus.
C6_SpoofedFromRejected ==
    [][ (/\ last'.op = "message"
         /\ last'.conn # NoConn
         /\ (last'.from_conn # last'.conn \/ last'.from_node # LocalNode))
        => /\ sockets'[last'.sock].readyState # "open"
           /\ ~last'.routed
           /\ out' = << >>
           /\ bus' = << >>
           /\ UNCHANGED <<groupVars, registryVars>> ]_vars

\* A bound socket has sent a frame under another node's id and is closing.
C6_Witness ==
    /\ last.op = "message"
    /\ last.conn # NoConn
    /\ last.from_conn = last.conn
    /\ last.from_node # LocalNode
    /\ sockets[last.sock].readyState = "closing"
    /\ AgentSubsOf(last.conn, "g1") # {}


\* What the trust rules promise for an auth payload: auth.ok, or the message
\* of auth.failed.
PromisedReply(p) ==
    IF ~p.token.present THEN "Missing token"
    ELSE IF ~p.token.valid THEN "Access Denied"
    ELSE IF p.token.iss = "alice" \/ allow_untrusted_agents THEN "auth.ok"
    ELSE "Access Denied"

WellFormedAuth(frame) ==
    /\ frame.json
    /\ frame.bytes <= MAX_MESSAGE_BYTES
    /\ isValidBaseFields(frame.msg)
    /\ frame.msg.type = "control"
    /\ frame.msg.msg_type = "auth"

\* C7: a well-formed auth frame that an unauthenticated socket sends within
\* its rate limit is taken to the auth step, not answered with an error,
\* and the auth step answers auth.ok for a valid token of the trusted
\* issuer (or of any issuer when allow_untrusted_agents is set), auth.failed
\* 'Missing token' without a token, and auth.failed 'Access Denied' for a
\* token that is not valid or whose issuer is not listed.
C7_AuthOutcomes ==
    /\ (/\ last.op = "message"
        /\ "wire" \in DOMAIN last
        /\ WellFormedAuth(last.frame)
        /\ ~last.violation
        /\ last.conn = NoConn)
       => (last.branch = "auth" /\ out = << >>)
    /\ (last.op = "auth" /\ last.payload.auth_type = "standard")
       => /\ Len(out) = 1
          /\ IF PromisedReply(last.payload) = "auth.ok"
             THEN out[1].kind = "auth.ok" /\ out[1].conn # NoConn
             ELSE out[1].kind = "auth.failed"
                  /\ out[1].info = PromisedReply(last.payload)

\* C9 as stated: every burst of more than message_limit frames that spans
\* less than window_seconds has drawn at least one speed_limit_exceeded.
C9_BurstInWindowViolates ==
    (burst.count > MESSAGE_LIMIT /\ burst.elapsed < MaxElapsed) => burst.violated

\* C9: a burst of message_limit + k frames that spans less than
\* k * window_seconds / message_limit seconds has drawn at least one
\* speed_limit_exceeded, whatever the arrival pattern and whatever the
\* bucket held when the burst began.
C9_BurstBeyondRefillViolates ==
    (/\ burst.count > MESSAGE_LIMIT
     /\ burst.elapsed < MaxElapsed
     /\ (burst.count - MESSAGE_LIMIT) * TokenScale > burst.elapsed * MESSAGE_LIMIT)
    => burst.violated

\* A burst of message_limit + 2 frames spread over time ends with the frame
\* that draws the violation.
C9_Witness ==
    /\ burst.count = MESSAGE_LIMIT + 2
    /\ burst.elapsed > 0
    /\ (burst.count - MESSAGE_LIMIT) * TokenScale > burst.elapsed * MESSAGE_LIMIT
    /\ last.op = "message" /\ last.violation
    /\ out = <<rawSendControl(last.sock, "speed_limit_exceeded", "")>>

\* C10: on a socket, a frame that track reports as a violation is answered
\* speed_limit_exceeded and adds one to the socket's count; the socket is no
\* longer open once the count is disconnect_threshold, a violation below
\* that leaves its readyState as it was, and no step lowers the count of a
\* connected socket.
C10_ViolationsCountedThenClosed ==
    [][ /\ (last'.op = "message" /\ "wire" \in DOMAIN last' /\ last'.violation)
           => LET ws == sockets[last'.sock]
                  after == sockets'[last'.sock]
              IN  /\ out' = <<rawSendControl(last'.sock, "speed_limit_exceeded", "")>>
                  /\ after.spamViolations = ws.spamViolations + 1
                  /\ (after.spamViolations >= DISCONNECT_THRESHOLD)
                        => after.readyState # "open"
                  /\ (after.spamViolations < DISCONNECT_THRESHOLD)
                        => after.readyState = ws.readyState
        /\ \A s \in Sockets :
              sockets[s].readyState # "free"
                 => sockets'[s].spamViolations >= sockets[s].spamViolations ]_vars

\* The disconnect_threshold-th violation has just closed a socket that was
\* open.
C10_Witness ==
    /\ last.op = "message" /\ "wire" \in DOMAIN last /\ last.violation
    /\ sockets[last.sock].spamViolations = DISCONNECT_THRESHOLD
    /\ sockets[last.sock].readyState = "closing"
    /\ sockets[last.sock].msg_errors = 0

\* C8: when a peer is registered for node_id N under issuer I1 and a hello
\* with a valid token of another trusted issuer I2 claims N, in its token or
\* in its payload, the hello is answered with an error, its socket is closed
\* and the registry entry of N is the first peer's as before.
C8_SecondIssuerRejected ==
    [][ (/\ last'.op = "hello"
         /\ last'.msg.json /\ last'.msg.validBase
         /\ last'.msg.type = "peer_control" /\ last'.msg.msg_type = "hello"
         /\ isTokenTrusted(last'.msg.token, {"peer-connect"}))
        => \A N \in {last'.msg.node_id, last'.msg.token.node_id} :
              (HasPeer(peers, N) /\ peers[N].vouchsafe_id # last'.msg.token.iss)
              => /\ peerSockets'[last'.sock] = "closed"
                 /\ out' = AccessDenied(last'.sock)
                 /\ HasPeer(peers', N)
                 /\ peers'[N] = peers[N] ]_vars

\* C11: a frame of more than MAX_MESSAGE_BYTES bytes that is not a spam
\* violation is answered bad_packet and nothing else happens to it: whether
\* or not it is JSON, the socket's readyState, ws.conn and msg_errors stay
\* as they were, no auth request is submitted, nothing is routed or emitted
\* and no registry or subscription changes; a frame of exactly
\* MAX_MESSAGE_BYTES bytes is not answered bad_packet but goes on to be
\* parsed and validated.
C11_OversizeDropped ==
    [][ (last'.op = "message" /\ "wire" \in DOMAIN last' /\ ~last'.violation)
        => LET s == last'.sock
               f == last'.frame
           IN  /\ f.bytes > MAX_MESSAGE_BYTES
                  => /\ out' = <<rawSendControl(s, "bad_packet", "message too large")>>
                     /\ sockets'[s].readyState = sockets[s].readyState
                     /\ sockets'[s].conn = sockets[s].conn
                     /\ sockets'[s].msg_errors = sockets[s].msg_errors
                     /\ ~last'.routed
                     /\ bus' = << >>
                     /\ UNCHANGED <<groupVars, registryVars, pendingAuthRequests>>
               /\ f.bytes = MAX_MESSAGE_BYTES
                  => /\ \A j \in 1..Len(out') : out'[j].info # "message too large"
                     /\ last'.branch =
                           IF ~f.json THEN "message_failure"
                           ELSE IF ~validateIncomingAgentMessage(f.msg) THEN "invalid"
                           ELSE "unauthenticated" ]_vars

\* An open socket has sent an oversize frame that is not JSON: it is answered
\* bad_packet and is still open with no error counted.
C11_Witness ==
    /\ last.op = "message" /\ "wire" \in DOMAIN last /\ ~last.violation
    /\ last.frame.bytes > MAX_MESSAGE_BYTES /\ ~last.frame.json
    /\ out = <<rawSendControl(last.sock, "bad_packet", "message too large")>>
    /\ sockets[last.sock].readyState = "open"
    /\ sockets[last.sock].msg_errors = 0

\* C12: a frame with valid base fields and type 'control' passes the agent
\* validator, so the handler does not count it as an invalid message, and a
\* type=control, msg_type=auth frame on an unauthenticated socket is taken
\* to the auth step; a frame with valid base fields and type 'peer_control'
\* passes the peer validator.
C12_ControlAccepted ==
    /\ (/\ last.op = "message" /\ "wire" \in DOMAIN last
        /\ ~last.violation
        /\ last.frame.json /\ ~TooLarge(last.frame)
        /\ isValidBaseFields(last.frame.msg)
        /\ last.frame.msg.type = "control")
       => /\ last.branch # "invalid"
          /\ (last.conn = NoConn /\ last.frame.msg.msg_type = "auth")
                => last.branch = "auth"
    /\ validateIncomingPeerMessage(Msg("peer_control", "peer.hello", NoConn, LocalNode))

\* C13: after removeAgentFromAllGroups(conn), conn is in no recipient set of
\* any group and msg_type and has no entry in agentSubscriptions, whatever
\* it was subscribed to, and every other connection has the recipient-set
\* memberships and the agentSubscriptions entry it had before.
C13_RemoveFromAllGroups ==
    [][ last'.op = "removeAgentFromAllGroups"
        => LET c == last'.conn
           IN  /\ \A g \in GroupIds, m \in MsgTypes :
                     c \notin getGroupRecipients(groups', g, m)
               /\ ~MapHas(agentSubscriptions', c)
               /\ \A d \in GroupConns \ {c} :
                     /\ MapHas(agentSubscriptions', d) = MapHas(agentSubscriptions, d)
                     /\ MapHas(agentSubscriptions, d)
                           => agentSubscriptions'[d] = agentSubscriptions[d]
                     /\ \A g \in GroupIds, m \in MsgTypes :
                           (d \in getGroupRecipients(groups', g, m))
                              <=> (d \in getGroupRecipients(groups, g, m)) ]_vars

\* A connection that held subscriptions in two groups has been removed from
\* all of them while another connection keeps its subscriptions.
C13_Witness ==
    /\ last.op = "removeAgentFromAllGroups"
    /\ last.held = Cardinality(GroupIds)
    /\ \E d \in GroupConns \ {last.conn} :
          Cardinality(getAgentGroups(Index, d)) = Cardinality(GroupIds)

\* A frame of an authenticated socket under the connection's own `from`.
OwnFrame(l) ==
    /\ l.op = "message"
    /\ l.conn # NoConn
    /\ l.from_conn = l.conn
    /\ l.from_node = LocalNode

\* C14: a disconnect control frame of a registered connection leaves the
\* connection unregistered, without session and without subscriptions, and
\* its socket no longer open; the close event that follows starts no timer.
C14_DisconnectCleansUp ==
    [][ /\ (/\ OwnFrame(last')
            /\ last'.type = "control" /\ last'.msg_type = "disconnect"
            /\ last'.conn \in agents)
           => /\ last'.conn \notin agents'
              /\ ~MapHas(sessions', last'.conn)
              /\ ~MapHas(agentSubscriptions', last'.conn)
              /\ sockets'[last'.sock].readyState # "open"
        /\ (/\ last'.op = "close"
            /\ OwnFrame(last)
            /\ last.type = "control" /\ last.msg_type = "disconnect"
            /\ last.sock = last'.sock)
           => UNCHANGED timerVars ]_vars

\* C15: a direct frame to the local node and to a conn_id that is not
\* registered is answered with an error on the sender's socket, which stays
\* as open as it was.
C15_DirectToUnknownConn ==
    [][ (/\ OwnFrame(last')
         /\ last'.type = "direct"
         /\ last'.to_node = LocalNode
         /\ last'.to_conn # NoConn
         /\ last'.to_conn \notin agents)
        => /\ \E j \in 1..Len(out') :
                 out'[j].sock = last'.sock /\ out'[j].kind = "error"
           /\ sockets'[last'.sock].readyState = sockets[last'.sock].readyState ]_vars

\* C16: a direct frame of connection A to the local node and the conn_id of
\* a registered connection B, A itself included, makes exactly one send: to
\* B on its current socket, of type direct, with the frame's msg_type and
\* payload, from = {local node, A} and in_response_to = the frame's msg_id.
C16_DirectRewritten ==
    [][ (/\ OwnFrame(last')
         /\ last'.type = "direct"
         /\ last'.to_node = LocalNode
         /\ last'.to_conn \in agents)
        => /\ Len(out') = 1
           /\ out'[1].kind = "direct"
           /\ out'[1].conn = last'.to_conn
           /\ out'[1].sock = connWs[last'.to_conn]
           /\ out'[1].msg_type = last'.msg_type
           /\ out'[1].payload = last'.payload
           /\ out'[1].from = last'.conn
           /\ out'[1].from_node = LocalNode
           /\ out'[1].in_response_to = last'.msg_id ]_vars

\* Connection 1 has sent a direct frame with its second msg_id and a payload
\* to connection 2, which is registered on another socket.
C16_Witness ==
    /\ OwnFrame(last) /\ last.type = "direct"
    /\ last.to_conn \in agents \ {last.conn}
    /\ last.msg_id = "uuid-2" /\ last.payload.ping = "data"
    /\ Len(out) = 1
    /\ out[1].sock # last.sock
    /\ out[1].in_response_to = "uuid-2"

\* C17: the callback of an auth request runs at most once and finds the
\* request gone from the pending map; neither a method result that arrives
\* after its attempt timed out nor a further completion for the same
\* auth_request_id runs it again.
C17_CallbackAtMostOnce ==
    \A id \in AuthIds :
        /\ authDone[id].called <= 1
        /\ authDone[id].called = 1 => id \notin authDone[id].seen
        /\ authDone[id].called = 1 => ~MapHas(authRequests, id)

\* The callback of request 1 has run, one of its attempts timed out before
\* its method settled, and a further completion for its id has arrived.
C17_Witness ==
    /\ authDone[1].called = 1
    /\ authDone[1].late
    /\ authDone[1].again

\* C18: a method that resolves with success false, or whose timer fires
\* first, costs one try: while tries < max_tries and config.order has a next
\* method the request stays pending and that method is started; otherwise
\* the request is finalized as failed.
C18_FailureRetriesNextMethod ==
    [][ (/\ last'.op \in {"method", "timeout"}
         /\ last'.outcome \in {"failure", "timeout"}
         /\ last'.won /\ last'.pending)
        => LET id == last'.id
               tries == last'.tries
           IN  IF tries < authConfig.max_tries /\ tries < Len(authConfig.order)
               THEN /\ MapHas(authRequests', id)
                    /\ authRequests'[id] = tries + 1
                    /\ authAttempts'[<<id, tries + 1>>].method = "pending"
                    /\ authAttempts'[<<id, tries + 1>>].methodName
                          = authConfig.order[tries + 1]
                    /\ authDone'[id].called = 0
               ELSE /\ ~MapHas(authRequests', id)
                    /\ authDone'[id].called = 1
                    /\ ~authDone'[id].result.success ]_vars

\* C19: a reload that cannot read or parse the file leaves the config as it
\* was: what was trusted before the reload is exactly what is trusted after.
C19_FailedReloadKeepsConfig ==
    [][ (last'.op \in {"isTokenTrusted", "forceReload"} /\ last'.failed)
        => /\ trustConfig' = trustConfig
           /\ Trusts(trustConfig') = Trusts(trustConfig) ]_vars

\* A config that trusts somebody was loaded, the file then became unreadable
\* and an access has failed to reload it: the issuers are still trusted.
C19_Witness ==
    /\ last.op = "isTokenTrusted" /\ last.failed /\ last.loadedBefore
    /\ readThrows(trustFile)
    /\ Trusts(trustConfig) # {}
    /\ last.answer

\* C20: an access of isTokenTrusted reads the file if and only if more than
\* the cache time has passed since the config was last loaded successfully.
C20_CachedWithinTtl ==
    [][ (last'.op = "isTokenTrusted" /\ last'.loadedBefore)
        => (last'.read <=> last'.age > CacheTicks) ]_vars

C22_ChangeReachesEveryAccessor ==
    [][ last'.op = "maybeChangeNodeId"
        => IF isUuid(last'.arg)
           THEN /\ routerNodeId' = last'.arg
                /\ statusNodeId' = last'.arg
                /\ persistFile' = FileWith(last'.arg)
           ELSE UNCHANGED <<routerNodeId, statusNodeId, persistFile>> ]_vars

\* The immediates of emit k that have not run yet, in queue order.
Queued(k) == SelectSeq(immediates, LAMBDA i : i.emit = k)

\* C23: no handler has run when emit returns; the handlers registered for
\* the event at emit time are called with the payload in registration order,
\* once for each registration: those already called are a prefix of them and
\* the others are still queued, in order, whatever the earlier ones threw
\* and whatever on() and off() did since.
C23_DeferredInOrderOnce ==
    /\ last.op = "emit" => emitted[last.emit].calls = << >>
    /\ \A k \in DOMAIN emitted :
          LET e == emitted[k]
              n == Len(e.calls)
          IN  /\ n <= Len(e.registered)
              /\ \A j \in 1..n : e.calls[j] = [fn |-> e.registered[j], payload |-> e.payload]
              /\ Len(Queued(k)) = Len(e.registered) - n
              /\ \A j \in 1..Len(Queued(k)) :
                    /\ Queued(k)[j].fn = e.registered[n + j]
                    /\ Queued(k)[j].payload = e.payload

\* An emit with two handlers has been served in full: the first handler
\* threw, the second had been removed with off() before it ran.
C23_Witness ==
    \E k \in DOMAIN emitted :
        /\ emitted[k].registered = <<"g", "f">>
        /\ Throws(emitted[k].registered[1])
        /\ Len(emitted[k].calls) = 2
        /\ handlers[emitted[k].event].fns = <<"g">>
        /\ Queued(k) = << >>

\* A frame off the wire that the handler has taken past the spam check.
WireFrame(l) == l.op = "message" /\ "wire" \in DOMAIN l /\ ~l.violation

\* A frame off the wire that reaches the schema validation.
Validated(l) ==
    /\ WireFrame(l)
    /\ ~TooLarge(l.frame)
    /\ l.frame.json

\* C24: a schema-valid frame on a socket without a connection that is not
\* control/auth is answered auth.failed 'Authorization required' and the
\* socket is closed.
C24_AuthRequiredCloses ==
    [][ (/\ Validated(last')
         /\ validateIncomingAgentMessage(last'.frame.msg)
         /\ last'.conn = NoConn
         /\ ~(last'.type = "control" /\ last'.msg_type = "auth"))
        => /\ out' = <<rawSendControl(last'.sock, "auth.failed", "Authorization required")>>
           /\ sockets'[last'.sock].readyState # "open" ]_vars

C30_SpamCheckFirst ==
    [][ /\ (last'.op = "message" /\ "wire" \in DOMAIN last' /\ last'.violation)
           => LET s == last'.sock
              IN  /\ out' = <<rawSendControl(s, "speed_limit_exceeded", "")>>
                  /\ sockets'[s].msg_errors = sockets[s].msg_errors
                  /\ sockets'[s].conn = sockets[s].conn
                  /\ sockets'[s].spamViolations = sockets[s].spamViolations + 1
                  /\ ~last'.routed
                  /\ bus' = << >>
                  /\ UNCHANGED <<groupVars, registryVars, pendingAuthRequests>>
        /\ (WireFrame(last') /\ TooLarge(last'.frame))
           => out' = <<rawSendControl(last'.sock, "bad_packet", "message too large")>>
      ]_vars

\* Frames that are too large, not JSON and schema-invalid have each arrived
\* on an empty bucket at some time; the last one was too large and not JSON.
C30_Witness ==
    /\ last.op = "message" /\ "wire" \in DOMAIN last /\ last.violation
    /\ TooLarge(last.frame) /\ ~last.frame.json
    /\ out = <<rawSendControl(last.sock, "speed_limit_exceeded", "")>>
    /\ sockets[last.sock].msg_errors > 0
    /\ sockets[last.sock].readyState = "open"

\* C27: a run of the maintenance sweep closes every socket that is open,
\* has not completed authentication and connected more than connect_timeout
\* ago, and leaves every socket that completed authentication, as a new
\* session or by resuming one, as it was.
C27_SweepClosesStalePending ==
    [][last'.op = "maintenance" =>
         \A s \in Sockets :
            /\ (/\ sockets[s].readyState = "open"
                /\ sockets[s].conn = NoConn
                /\ clock - sockets[s].connectTimestamp > CONNECT_TIMEOUT)
               => sockets'[s].readyState # "open"
            /\ sockets[s].conn # NoConn => sockets'[s] = sockets[s]]_vars

\* A sweep has closed a socket that never authenticated and has left open
\* an equally old socket that had authenticated.
C27_Witness ==
    /\ last.op = "maintenance"
    /\ \E s \in last.closed : sockets[s].conn = NoConn /\ sockets[s].readyState # "open"
    /\ \E t \in Sockets :
          /\ sockets[t].conn # NoConn
          /\ sockets[t].readyState = "open"
          /\ clock - sockets[t].connectTimestamp > CONNECT_TIMEOUT

\* C25: a join_group frame of an authenticated connection is answered with
\* exactly one join_group_reply, of status ok or failed, to that connection,
\* and leaves the state of the socket it arrived on as it was.
C25_JoinAlwaysAnswered ==
    [][ (/\ OwnFrame(last')
         /\ last'.type = "control" /\ last'.msg_type = "join_group")
        => /\ Len(out') = 1
           /\ out'[1].kind = "join_group_reply"
           /\ out'[1].info \in {"ok", "failed"}
           /\ out'[1].conn = last'.conn
           /\ sockets'[last'.sock].readyState = sockets[last'.sock].readyState ]_vars

C26_HandshakeOutcomes ==
    [][ last'.op = "hello" =>
          LET s == last'.sock
              msg == last'.msg
              accepted == /\ \E n \in DOMAIN peers' : peers'[n].ws = s
                          /\ peerSockets'[s] = "peer"
                          /\ out' = << >>
              rejected == /\ out' = AccessDenied(s)
                          /\ peerSockets'[s] = "closed"
                          /\ peers' = peers
              trusted == /\ msg.json /\ msg.validBase
                         /\ msg.type = "peer_control" /\ msg.msg_type = "hello"
                         /\ msg.token.present
                         /\ ~validateTokenThrows(msg.token)
                         /\ isTokenTrusted(msg.token, {"peer-connect"})
          IN  /\ accepted \/ rejected
              /\ accepted => trusted ]_vars

\* C31: with the default configuration, a schema-valid frame that is
\* processed on a socket with msg_errors > 0 more than 300000 ms after the
\* socket's last schema error resets msg_errors to 0.
C31_ErrorsResetAfterWindow ==
    [][ (/\ last'.op = "message"
         /\ last'.branch = "unauthenticated"
         /\ sockets[last'.sock].msg_errors > 0
         /\ Milliseconds(sockets'[last'.sock].lastErrorAge) > DEFAULT_ERROR_RESET_MS)
        => sockets'[last'.sock].msg_errors = 0 ]_vars

\* C32: resumeAgent(conn_id, auth_key) returns the connection exactly when
\* conn_id is registered and auth_key is the key its registration issued;
\* for a connection that has been unregistered it returns null for every
\* key.  The resume requests of the server are granted accordingly.
C32_ResumeIffRegisteredWithKey ==
    [][ /\ \A c \in ConnIds \cup {UnknownConn}, k \in ConnIds \cup {WrongKey} :
             resumeAgent(agents', sessions', c, k) =
                IF c \in agents' /\ k = AuthKeyOf(c) THEN c ELSE NoConn
        /\ (last'.op = "auth" /\ last'.payload.auth_type = "reconnect")
              => (last'.granted <=> /\ last'.payload.rc_conn \in agents
                                    /\ last'.payload.rc_key = AuthKeyOf(last'.payload.rc_conn))
      ]_vars

\* A resume with the key that was valid has been refused for a connection
\* that the cleanup timer had unregistered.
C32_Witness ==
    /\ last.op = "auth" /\ last.payload.auth_type = "reconnect"
    /\ ~last.granted
    /\ last.payload.rc_key = AuthKeyOf(last.payload.rc_conn)
    /\ last.payload.rc_conn \in DOMAIN connWs
    /\ last.payload.rc_conn \notin agents

\* C33: in every reachable state of the group index no recipient set is
\* empty, no group has an empty msg_type map, and no connection has an empty
\* group map or an empty msg_type set in agentSubscriptions.
C33_NoEmptyContainers ==
    /\ \A g \in DOMAIN groups :
          /\ DOMAIN groups[g] # {}
          /\ \A m \in DOMAIN groups[g] : groups[g][m] # {}
    /\ \A c \in DOMAIN agentSubscriptions :
          /\ DOMAIN agentSubscriptions[c] # {}
          /\ \A g \in DOMAIN agentSubscriptions[c] : agentSubscriptions[c][g] # {}

\* A connection has left a group in which it held msg_types; the group lives
\* on for another connection and the connection that left keeps another
\* group.
C33_Witness ==
    /\ last.op = "leaveGroup" /\ last.held > 0
    /\ MapHas(groups, last.group)
    /\ MapHas(agentSubscriptions, last.conn)
    /\ \E d \in GroupConns \ {last.conn} : MapHas(agentSubscriptions, d)

\* C34: the tokens of every bucket stay within [0, message_limit]; a frame
\* finds the bucket refilled to at most message_limit and not below what it
\* held, is accepted and takes exactly one token when the refilled bucket
\* holds a whole token, and is a violation that takes nothing otherwise.
C34_BucketWithinLimit ==
    [][ (last'.op = "message" /\ "wire" \in DOMAIN last')
        => LET ws == sockets[last'.sock]
               before == IF ws.hasBucket THEN ws.tokens ELSE MESSAGE_LIMIT * TokenScale
               after == sockets'[last'.sock].tokens
               refilled == IF last'.violation THEN after ELSE after + TokenScale
           IN  /\ sockets'[last'.sock].hasBucket
               /\ 0 <= after /\ after <= MESSAGE_LIMIT * TokenScale
               /\ before <= refilled /\ refilled <= MESSAGE_LIMIT * TokenScale
               /\ last'.violation <=> refilled < TokenScale ]_vars

\* A socket that once drew a violation and once was idle for longer than
\* any window has had a frame accepted from a bucket that was full.
C34_Witness ==
    /\ last.op = "message" /\ "wire" \in DOMAIN last /\ ~last.violation
    /\ sockets[last.sock].spamViolations > 0
    /\ sockets[last.sock].lastErrorAge = LongIdle
    /\ sockets[last.sock].tokens = (MESSAGE_LIMIT - 1) * TokenScale

\* The socket a connection is currently bound to is open.
BoundOpen(c) ==
    /\ MapHas(connWs, c)
    /\ sockets[connWs[c]].conn = c
    /\ sockets[connWs[c]].readyState = "open"

\* C35: the expiry of a cleanup timer leaves every registered connection
\* whose current socket is open registered, with its session and with the
\* subscriptions it had.
C35_TimerSparesOpenConnection ==
    [][ last'.op = "timer" =>
          \A c \in agents :
             BoundOpen(c) =>
                /\ c \in agents'
                /\ MapHas(sessions', c)
                /\ MapHas(agentSubscriptions, c) =>
                      /\ MapHas(agentSubscriptions', c)
                      /\ agentSubscriptions'[c] = agentSubscriptions[c] ]_vars

\* C36: every registered connection is bound to a socket whose close event
\* has not been handled yet, or a pending cleanup timer will clean it up.
C36_RegisteredHasSocketOrTimer ==
    \A c \in agents :
       \/ /\ MapHas(connWs, c)
          /\ sockets[connWs[c]].readyState \in {"open", "closing"}
       \/ \E t \in timers : sockets[t].conn = c

\* C37: a socket creates at most one logical connection: an auth callback
\* that binds a connection to a socket and answers auth.ok finds the socket
\* without a connection.
C37_OneConnectionPerSocket ==
    [][ (last'.op = "auth" /\ last'.granted)
        => sockets[last'.sock].conn = NoConn ]_vars

\* C38: no two open sockets are bound to one logical connection, and a frame
\* is routed as a connection only from the socket the connection is
\* currently bound to.
C38_OneOpenSocketPerConnection ==
    [][ /\ \A c \in ConnIds :
             Cardinality({s \in Sockets : /\ sockets'[s].conn = c
                                          /\ sockets'[s].readyState = "open"}) <= 1
        /\ (last'.op = "message" /\ last'.routed)
              => connWs[last'.conn] = last'.sock ]_vars

\* C39: a peer handshake writes the registry only under the node_id that its
\* validated token carries, and never over the entry of a peer of another
\* issuer.
C39_RegisteredUnderTokenNodeId ==
    [][ last'.op = "hello" =>
          \A n \in DOMAIN peers' :
             (~MapHas(peers, n) \/ peers'[n] # peers[n])
                => /\ n = last'.msg.token.node_id
                   /\ MapHas(peers, n) => peers[n].vouchsafe_id = last'.msg.token.iss ]_vars

\* C40: every request submitted to submitAuthRequest completes in the end:
\* its callback is invoked and its entry leaves the pending map.
C40_RequestEventuallyCompletes ==
    \A id \in AuthIds :
       MapHas(authRequests, id)
          ~> (authDone[id].called > 0 /\ ~MapHas(authRequests, id))

=============================================================================
